---- MODULE Spec2Model ----
(***************************************************************************)
(* Lead lifecycle of linkedin_outreach_helper.                             *)
(*                                                                         *)
(* The repository holds the pipeline in two storage variants:              *)
(*   - the file variant (CLI / MCP): data/qualified/*.json and             *)
(*     data/disqualified/*.json, batch-qualify.js, batch-send,             *)
(*     test-send, src/heyreach-client.js, src/acceptance-tracker.js;       *)
(*   - the API variant (SQLite): routes/profiles, routes/qualifications,   *)
(*     routes/outreach, routes/connections.                                *)
(* Init chooses the variant; SpecSend, SpecSendConc and SpecRecon run both.*)
(***************************************************************************)
EXTENDS Integers, Sequences, FiniteSets, TLC

\* ---------------------------------------------------------------- bounds
MaxFiles == 2        \* files written to data/qualified + data/disqualified
MaxAdds == 2         \* times Heyreach accepts the same URL into the list
MaxText == 4         \* pieces in an LLM response text
MaxCeiling == 2      \* largest configured maxProfileViewsPerDay
MaxDays == 2         \* days the scraper is run on
MaxCrashes == 1      \* times the scraper process is killed
MaxHooks == 2        \* webhook deliveries for the same LinkedIn URL
MaxLeads == 4        \* leads in the Heyreach campaign whose pages are fetched
PageSize == 2        \* leads per page; the code asks for 100
MaxErrors == 2       \* failed scrapeProfile calls in a day

\* ------------------------------------------------------------- constants
minScore == 60       \* config.minScore default

\* ------------------------------------------------------------------ URLs
\* A URL is the sequence of its pieces; "/" is always a piece of its own, so
\* the last piece is "/" exactly when the string ends with a slash.
NoUrl == <<>>

MkUrl(scheme, host, who, slashes) ==
  <<scheme, "/", "/", host, "/", "in", "/", who>> \o [i \in 1..slashes |-> "/"]

UrlAda      == MkUrl("https:", "x.com", "a", 0)
UrlAdaSlash == MkUrl("https:", "x.com", "a", 1)
UrlAdaUpper == MkUrl("HTTPS:", "X.COM", "a", 0)
UrlBob      == MkUrl("https:", "x.com", "b", 0)
UrlBobSlash == MkUrl("https:", "x.com", "b", 1)

\* url.replace(/\/$/, '')
normalizeLinkedInUrl(url) ==
  IF Len(url) > 0 /\ url[Len(url)] = "/" THEN SubSeq(url, 1, Len(url) - 1) ELSE url

Min(S) == CHOOSE x \in S : \A y \in S : x <= y

\* ------------------------------------------------- the loaded CSV export
csv == << [name |-> "Ada Lovelace", url |-> UrlAda],
          [name |-> "Bob",          url |-> UrlBobSlash] >>

Names == {csv[i].name : i \in 1..Len(csv)}

\* a CSV export in which two people have the same name
csvNamesakes == << [name |-> "Ada Lovelace", url |-> UrlAda],
                   [name |-> "Ada Lovelace", url |-> UrlBob] >>
CsvUrls == {csv[i].url : i \in 1..Len(csv)}

\* ------------------------------------------------ Heyreach HTTP responses
RespOkId   == [kind |-> "http", status |-> 200, id |-> "L7"]
RespOkNoId == [kind |-> "http", status |-> 200, id |-> ""]
Resp500    == [kind |-> "http", status |-> 500, id |-> ""]
RespNet    == [kind |-> "network", status |-> 0, id |-> ""]
Responses  == {RespOkId, RespOkNoId, Resp500, RespNet}

ErrNoConfig == "Heyreach configuration not found in config.json"
ErrNoUrl    == "LinkedIn profile URL is required"
ErrNetwork  == "fetch failed"
ErrHttp(status) ==
  IF status = 500 THEN "Heyreach API error (500): Internal Server Error"
  ELSE "Heyreach API error"

\* -------------------------------------------------- campaign lead fixture
\* Leads as GetLeadsFromCampaign returns them: the profile URL sits either in
\* linkedInUserProfile.profileUrl or in the top-level profile_url.
Leads == << [id |-> 101, profileUrl |-> UrlAdaSlash, profile_url |-> NoUrl],
            [id |-> 102, profileUrl |-> NoUrl,       profile_url |-> UrlBob],
            [id |-> 103, profileUrl |-> UrlAdaUpper, profile_url |-> NoUrl],
            [id |-> 104, profileUrl |-> NoUrl,       profile_url |-> NoUrl] >>
LeadIdx == 1..Len(Leads)

Procs == {1, 2}      \* concurrently running batch-send invocations

\* Leads as GetCampaignLeads returns them to the API variant
ApiLeads == << [id |-> 101, linkedInProfileURL |-> UrlAda],
               [id |-> 102, linkedInProfileURL |-> UrlBob],
               [id |-> 103, linkedInProfileURL |-> NoUrl] >>
ApiLeadIdx == 1..Len(ApiLeads)

ProfileIds == 1..Len(csv)   \* ids the profiles table can hand out for this CSV
Reqs == {1, 2}              \* concurrently served POST /api/outreach/send requests
SendBodies == {<<1>>, <<2>>, <<1, 2>>}   \* profile_id / profile_ids of a request

VARIABLES
  variant,            \* the deployment: "file" (CLI / MCP) or "api" (SQLite routes)
  heyreachConfigured, \* config.heyreach with apiKey and listId present
  qualifiedDir,       \* data/qualified, in directory order
  disqualifiedDir,    \* data/disqualified
  heyreachList,       \* Heyreach side: times each URL was added to the list
  leadStatus,         \* Heyreach side: leadConnectionStatus of each lead
  bs,                 \* per batch-send invocation: pc and remaining toSend
  syncResult,         \* what the last checkAcceptedConnections returned
  lastOp,             \* "sync" right after a reconciliation run, else "other"
  profilesTbl,        \* table profiles; a row's id is its position
  qualTbl,            \* table qualifications, by profile_id
  outreachTbl,        \* table outreach_tracking, by profile_id
  connTbl,            \* table connections, by profile_id
  send,               \* per POST /api/outreach/send request: pc, ids left, counts
  syncResponse,       \* body of the last POST /api/connections/sync response
  llmSeen,            \* what the LLM Router returned to the last POST /api/qualifications
  toolCall,           \* arguments and outcome of the last save_qualification tool call
  maxViews,           \* config.limits.maxProfileViewsPerDay; 0 where no scraper runs
  today,              \* the day getTodayString() returns
  statsFile,          \* data/stats.json
  recorded,           \* per day: incrementProfileViews() calls that returned
  crashes,            \* times the scraper process was killed
  scraper,            \* the scrapeFromSalesNav run: running, profilesScraped, maxProfiles
  outreach,           \* per file of data/qualified: outreachMessage, outreachApproved,
                      \* messageSent, outreach.contacted
  approvedTexts,      \* per file of data/qualified: the message texts that were approved
  msgSender,          \* the sendMessagesToReadyProfiles run: pc and the profiles it loaded
  apiFollow,          \* per connections row: follow_up_message, follow_up_sent
  contact,            \* webhook bot, Redis: the value at contact:<linkedinUrl>
  statusSets,         \* webhook bot, Redis: is the URL in contacts:pending / qualified / disqualified
  tasks,              \* per webhook delivery: the handler's and processContact's position
  viewers,            \* per scraper process run side by side: pc and the stats it loaded
  campaign,           \* Heyreach side: leads in the campaign, and the total it declares
  fileLoop,           \* getAllCampaignLeads: pc, offset, allLeads, requests made, last page
  apiLoop,            \* page loop of POST /api/connections/sync: pc, page, leads seen, ...
  scrapeErrors        \* errors: today's errors count of data/stats.json; failed: the
                      \* positions in the result list the running scrape failed on

cliVars == <<variant, heyreachConfigured, qualifiedDir, disqualifiedDir, heyreachList,
             leadStatus, bs, syncResult, lastOp>>

apiVars == <<profilesTbl, qualTbl, outreachTbl, connTbl, send, syncResponse, llmSeen>>

quotaVars == <<maxViews, today, statsFile, recorded, crashes, scraper>>

followVars == <<outreach, approvedTexts, msgSender>>

\* what the API server, the scraper and the save_qualification tool leave alone
hookVars == <<contact, statusSets, tasks>>

pageVars == <<campaign, fileLoop, apiLoop>>

restVars == <<followVars, hookVars, viewers, pageVars, scrapeErrors>>

sideVars == <<toolCall, quotaVars, apiFollow, restVars>>

vars == <<cliVars, apiVars, sideVars>>

NoHeyreach == [set |-> FALSE, sent |-> FALSE, error |-> "", heyreachId |-> <<>>]

\* ------------------------------------------------ src/heyreach-client.js
\* addProspectToCampaign: the outcome of one call, given the HTTP response.
\* called = the request was sent; threw = the promise rejected.
addProspectToCampaign(profile, resp) ==
  IF ~heyreachConfigured
    THEN [called |-> FALSE, threw |-> TRUE, error |-> ErrNoConfig, heyreachId |-> <<>>]
  ELSE IF profile.url = NoUrl
    THEN [called |-> FALSE, threw |-> TRUE, error |-> ErrNoUrl, heyreachId |-> <<>>]
  ELSE IF resp.kind = "network"
    THEN [called |-> TRUE, threw |-> TRUE, error |-> ErrNetwork, heyreachId |-> <<>>]
  ELSE IF ~(resp.status >= 200 /\ resp.status <= 299)
    THEN [called |-> TRUE, threw |-> TRUE, error |-> ErrHttp(resp.status), heyreachId |-> <<>>]
  ELSE [called |-> TRUE, threw |-> FALSE, error |-> "",
        heyreachId |-> IF resp.id # "" THEN <<resp.id>> ELSE profile.url]

\* The heyreach object the callers store for an outcome.
HeyreachField(r) ==
  IF r.threw
    THEN [set |-> TRUE, sent |-> FALSE, error |-> r.error, heyreachId |-> <<>>]
    ELSE [set |-> TRUE, sent |-> TRUE, error |-> "", heyreachId |-> r.heyreachId]

\* the sweep with the test on "sent" inverted
getFailedHeyreachSends_SentInverted(qualifiedProfiles) ==
  {i \in 1..Len(qualifiedProfiles) :
     /\ qualifiedProfiles[i].heyreach.set
     /\ qualifiedProfiles[i].heyreach.sent = TRUE
     /\ qualifiedProfiles[i].heyreach.error # ""}

\* getFailedHeyreachSends: indices of the profiles that failed to send.
getFailedHeyreachSends(qualifiedProfiles) ==
  {i \in 1..Len(qualifiedProfiles) :
     /\ qualifiedProfiles[i].heyreach.set
     /\ qualifiedProfiles[i].heyreach.sent = FALSE
     /\ qualifiedProfiles[i].heyreach.error # ""}

\* the outcome may happen within the bound on the Heyreach list
WithinAdds(url, r) == (r.called /\ ~r.threw) => heyreachList[url] < MaxAdds

\* Heyreach list after an outcome for a URL.
ListAfter(url, r) ==
  IF r.called /\ ~r.threw
    THEN [heyreachList EXCEPT ![url] = @ + 1]
    ELSE heyreachList

\* some stored record of this identity is already marked sent
AlreadySent(url) ==
  \E i \in 1..Len(qualifiedDir) :
     qualifiedDir[i].url = url /\ qualifiedDir[i].heyreach.set /\ qualifiedDir[i].heyreach.sent

NoQualification == [present |-> FALSE, qualified |-> FALSE, score |-> 0]
NoOutreach == [present |-> FALSE, status |-> "", heyreach_lead_id |-> NoUrl]
NoConnection == [present |-> FALSE, heyreach_lead_id |-> 0]
IdleSend == [pc |-> "idle", ids |-> <<>>, sent |-> 0, failed |-> 0]
NoLlm == [profile_id |-> 0, ok |-> TRUE, response |-> <<>>]
NoToolCall == [reasoning |-> 0, recommendedApproach |-> 0, strengths |-> <<>>,
               concerns |-> <<>>, isError |-> FALSE]

Days == 1..MaxDays

\* loadStats() without a readable file: the default stats
DefaultStats == [dailyStats |-> [d \in Days |-> 0], totalProfilesViewed |-> 0]

\* data/stats.json: absent, holding stats, or cut short by an interrupted write
NoStatsFile == [state |-> "absent", stats |-> DefaultStats]

\* message texts; 0 stands for no message
MsgTexts == {1, 2}

\* a profile file without outreach fields
NoOutreachFields == [outreachMessage |-> 0, outreachApproved |-> FALSE, messageSent |-> FALSE,
                     contacted |-> FALSE]

\* the follow-up columns of a new connections row
NoFollowUp == [follow_up_message |-> 0, follow_up_sent |-> FALSE]

IdleSender == [pc |-> "idle", queue |-> <<>>]

\* a page loop that has not begun; leads are numbered from 1 in the
\* campaign's order
IdleLoop == [pc |-> "idle", at |-> 0, leads |-> <<>>, requests |-> 0, last |-> 0]

\* a scraper process outside scrapeProfile
IdleViewer == [pc |-> "idle", stats |-> DefaultStats, day |-> 1]

Hooks == 1..MaxHooks

\* no value at the contact's key
NoContact == [present |-> FALSE, rawData |-> 0, status |-> "", tier |-> "",
              qualificationReason |-> "", roleDetected |-> "", processedAt |-> FALSE]

NoResult == [decision |-> "", reason |-> "", roleDetected |-> ""]

\* a delivery that has not arrived
NoTask == [pc |-> "none", rawData |-> 0, result |-> NoResult, read |-> NoContact]

Init ==
  /\ variant \in {"file", "api", "scrape", "hook", "pages"}
  /\ heyreachConfigured \in BOOLEAN
  /\ qualifiedDir = <<>>
  /\ disqualifiedDir = <<>>
  /\ heyreachList = [u \in CsvUrls |-> 0]
  /\ leadStatus = [l \in LeadIdx |-> "Pending"]
  /\ bs = [p \in Procs |-> [pc |-> "idle", queue |-> <<>>]]
  /\ syncResult = [totalLeads |-> 0, acceptedLeads |-> 0, updatedProfiles |-> 0]
  /\ lastOp = "other"
  /\ profilesTbl = <<>>
  /\ qualTbl = [i \in ProfileIds |-> NoQualification]
  /\ outreachTbl = [i \in ProfileIds |-> NoOutreach]
  /\ connTbl = [i \in ProfileIds |-> NoConnection]
  /\ send = [r \in Reqs |-> IdleSend]
  /\ syncResponse = [new_connections |-> 0, updated_connections |-> 0]
  /\ llmSeen = NoLlm
  /\ toolCall = NoToolCall
  /\ maxViews \in (IF variant = "scrape" THEN 1..MaxCeiling ELSE {0})
  /\ today = 1
  /\ statsFile = NoStatsFile
  /\ recorded = [d \in Days |-> 0]
  /\ crashes = 0
  /\ scraper = [running |-> FALSE, profilesScraped |-> 0, maxProfiles |-> 0]
  /\ outreach = [i \in 1..MaxFiles |-> NoOutreachFields]
  /\ approvedTexts = [i \in 1..MaxFiles |-> {}]
  /\ msgSender = IdleSender
  /\ apiFollow = [i \in ProfileIds |-> NoFollowUp]
  /\ contact = NoContact
  /\ statusSets = [pending |-> FALSE, qualified |-> FALSE, disqualified |-> FALSE]
  /\ tasks = [k \in Hooks |-> NoTask]
  /\ viewers = [p \in Procs |-> IdleViewer]
  /\ campaign \in (IF variant = "pages"
                     THEN {[leads |-> n, totalCount |-> t] : n \in 0..MaxLeads, t \in 0..MaxLeads}
                     ELSE {[leads |-> 0, totalCount |-> 0]})
  /\ campaign.totalCount \in {0, campaign.leads}
  /\ fileLoop = IdleLoop
  /\ apiLoop = IdleLoop
  /\ scrapeErrors = [errors |-> 0, failed |-> {}]

\* ------------------------------------------------------ batch-qualify.js
\* the test with a disjunction in place of the conjunction
IsQualifying_Either(qualified, score) == qualified \/ score >= minScore

\* qualified && score >= config.minScore
IsQualifying(qualified, score) == qualified /\ score >= minScore

\* saveQualification(profileName, qualificationData)
SaveQualification(profileName, qualified, score, resp) ==
  LET found == {i \in 1..Len(csv) : csv[i].name = profileName} IN
  /\ variant = "file"
  /\ Len(qualifiedDir) + Len(disqualifiedDir) < MaxFiles
  /\ IF found = {}
       THEN /\ lastOp' = "other"
            /\ UNCHANGED <<sideVars, variant, heyreachConfigured, qualifiedDir, disqualifiedDir,
                           heyreachList, leadStatus, bs, syncResult>>
       ELSE
       LET profile == csv[Min(found)]
           base == [name |-> profile.name, url |-> profile.url,
                    isQualified |-> FALSE,
                    qualified |-> qualified, score |-> score,
                    heyreach |-> NoHeyreach,
                    connectionAccepted |-> FALSE, heyreachLeadId |-> 0]
       IN
       IF IsQualifying(qualified, score)
         THEN LET r == addProspectToCampaign(profile, resp)
                  prospect == IF heyreachConfigured
                                THEN [base EXCEPT !.isQualified = TRUE,
                                                  !.heyreach = HeyreachField(r)]
                                ELSE [base EXCEPT !.isQualified = TRUE]
              IN /\ WithinAdds(profile.url, r)
                 /\ qualifiedDir' = Append(qualifiedDir, prospect)
                 /\ heyreachList' = ListAfter(profile.url, r)
                 /\ lastOp' = "other"
                 /\ UNCHANGED <<variant, heyreachConfigured, disqualifiedDir, leadStatus,
                                bs, syncResult>>
         ELSE /\ disqualifiedDir' = Append(disqualifiedDir, base)
              /\ lastOp' = "other"
              /\ UNCHANGED <<variant, heyreachConfigured, qualifiedDir, heyreachList,
                             leadStatus, bs, syncResult>>
  /\ UNCHANGED <<apiVars, sideVars>>

\* ------------------------------------------------------- test-send script
TestProfileIdx == 1  \* the script's fixed profilePath: the first qualified file

\* read the test profile, addProspectToCampaign, write the heyreach object back
TestSend(resp) ==
  /\ variant = "file"
  /\ Len(qualifiedDir) >= TestProfileIdx
  /\ LET profile == qualifiedDir[TestProfileIdx]
         r == addProspectToCampaign(profile, resp)
     IN /\ WithinAdds(profile.url, r)
        /\ qualifiedDir' = [qualifiedDir EXCEPT ![TestProfileIdx].heyreach = HeyreachField(r)]
        /\ heyreachList' = ListAfter(profile.url, r)
        /\ lastOp' = "other"
  /\ UNCHANGED <<variant, heyreachConfigured, disqualifiedDir, leadStatus, bs, syncResult>>
  /\ UNCHANGED <<apiVars, sideVars>>

\* ------------------------------------------------------ batch-send script
\* !profile.heyreach || profile.heyreach.sent !== true
IsUnsent(profile) == ~profile.heyreach.set \/ profile.heyreach.sent # TRUE

RECURSIVE SelectUnsent(_, _)
SelectUnsent(files, i) ==
  IF i > Len(files) THEN <<>>
  ELSE IF IsUnsent(files[i])
    THEN <<[idx |-> i, profile |-> files[i]]>> \o SelectUnsent(files, i + 1)
    ELSE SelectUnsent(files, i + 1)

\* the script starts: read every qualified file, keep the unsent ones
BatchSendStart(p) ==
  /\ variant = "file"
  /\ bs[p].pc = "idle"
  /\ LET toSend == SelectUnsent(qualifiedDir, 1)
     IN bs' = [bs EXCEPT ![p] = [pc |-> IF toSend = <<>> THEN "idle" ELSE "ready",
                                 queue |-> toSend]]
  /\ lastOp' = "other"
  /\ UNCHANGED <<sideVars, variant, heyreachConfigured, qualifiedDir, disqualifiedDir, heyreachList,
                 leadStatus, syncResult>>
  /\ UNCHANGED <<apiVars, sideVars>>

\* the loop staying on the item it has just handled
AfterItem_Retry(p) == [pc |-> "ready", queue |-> bs[p].queue]

\* the for...of loop moves to the next entry of toSend, whatever the outcome
AfterItem(p) ==
  [pc |-> IF Len(bs[p].queue) = 1 THEN "idle" ELSE "ready", queue |-> Tail(bs[p].queue)]

\* loop body up to the await: addProspectToCampaign sends the request, or
\* throws before sending and the catch block writes the error
BatchSendCall(p) ==
  /\ bs[p].pc = "ready"
  /\ LET item == Head(bs[p].queue)
         r == addProspectToCampaign(item.profile, RespNet)
     IN IF r.called
          THEN /\ bs' = [bs EXCEPT ![p].pc = "awaiting"]
               /\ lastOp' = "other"
               /\ UNCHANGED qualifiedDir
          ELSE /\ qualifiedDir' = [qualifiedDir EXCEPT ![item.idx] =
                                     [item.profile EXCEPT !.heyreach = HeyreachField(r)]]
               /\ bs' = [bs EXCEPT ![p] = AfterItem(p)]
               /\ lastOp' = "other"
  /\ UNCHANGED <<variant, heyreachConfigured, disqualifiedDir, heyreachList, leadStatus, syncResult>>
  /\ UNCHANGED <<apiVars, sideVars>>

\* the response arrives: write the profile read at the start, with its heyreach object
BatchSendResponse(p, resp) ==
  /\ bs[p].pc = "awaiting"
  /\ LET item == Head(bs[p].queue)
         r == addProspectToCampaign(item.profile, resp)
     IN /\ WithinAdds(item.profile.url, r)
        /\ qualifiedDir' = [qualifiedDir EXCEPT ![item.idx] =
                              [item.profile EXCEPT !.heyreach = HeyreachField(r)]]
        /\ heyreachList' = ListAfter(item.profile.url, r)
        /\ bs' = [bs EXCEPT ![p] = AfterItem(p)]
        /\ lastOp' = "other"
  /\ UNCHANGED <<variant, heyreachConfigured, disqualifiedDir, leadStatus, syncResult>>
  /\ UNCHANGED <<apiVars, sideVars>>

\* ------------------------------------------- src/acceptance-tracker.js
AcceptedStatus == "ConnectionAccepted"

\* lead.leadConnectionStatus === 'ConnectionAccepted'
isConnectionAccepted(l) == leadStatus[l] = AcceptedStatus

\* profile.profileUrl || lead.profile_url || null
getLinkedInUrl(lead) ==
  IF lead.profileUrl # NoUrl THEN lead.profileUrl ELSE lead.profile_url

\* leads.filter(isConnectionAccepted), in campaign order
RECURSIVE AcceptedFrom(_)
AcceptedFrom(l) ==
  IF l > Len(Leads) THEN <<>>
  ELSE IF isConnectionAccepted(l) THEN <<Leads[l]>> \o AcceptedFrom(l + 1)
  ELSE AcceptedFrom(l + 1)

\* the reconciliation without its already-tracked check
AlreadyTracked_Never(profile) == FALSE

\* if (match.profile.connectionAccepted) continue
AlreadyTracked(profile) == profile.connectionAccepted

\* the lookup taking any stored profile for a match
FindMatch_Any(profiles, linkedinUrl) == {i \in 1..Len(profiles) : TRUE}

\* profiles.find(p => normalizeLinkedInUrl(p.profile.url) === normalizedLeadUrl)
FindMatch(profiles, linkedinUrl) ==
  {i \in 1..Len(profiles) :
     normalizeLinkedInUrl(profiles[i].url) = normalizeLinkedInUrl(linkedinUrl)}

RECURSIVE updateProfilesWithAcceptances(_, _, _)
updateProfilesWithAcceptances(acceptedLeads, profiles, updatedCount) ==
  IF acceptedLeads = <<>>
    THEN [profiles |-> profiles, updatedCount |-> updatedCount]
  ELSE
    LET lead == Head(acceptedLeads)
        rest == Tail(acceptedLeads)
        linkedinUrl == getLinkedInUrl(lead)
        found == FindMatch(profiles, linkedinUrl)
    IN IF linkedinUrl = NoUrl \/ found = {}
         THEN updateProfilesWithAcceptances(rest, profiles, updatedCount)
       ELSE IF AlreadyTracked(profiles[Min(found)])
         THEN updateProfilesWithAcceptances(rest, profiles, updatedCount)
       ELSE updateProfilesWithAcceptances(rest,
              [profiles EXCEPT ![Min(found)].connectionAccepted = TRUE,
                               ![Min(found)].heyreachLeadId = lead.id],
              updatedCount + 1)

\* checkAcceptedConnections (check-acceptances.js)
CheckAcceptedConnections ==
  /\ variant = "file"
  /\ heyreachConfigured
  /\ LET acceptedLeads == AcceptedFrom(1)
         u == updateProfilesWithAcceptances(acceptedLeads, qualifiedDir, 0)
     IN /\ qualifiedDir' = u.profiles
        /\ syncResult' = [totalLeads |-> Len(Leads),
                          acceptedLeads |-> Len(acceptedLeads),
                          updatedProfiles |-> u.updatedCount]
  /\ lastOp' = "sync"
  /\ UNCHANGED <<variant, heyreachConfigured, disqualifiedDir, heyreachList, leadStatus, bs>>
  /\ UNCHANGED <<apiVars, sideVars>>

\* Heyreach side: a lead accepts the connection request
LeadAccepts(l) ==
  /\ variant = "file" \/ l \in ApiLeadIdx
  /\ leadStatus[l] # AcceptedStatus
  /\ leadStatus' = [leadStatus EXCEPT ![l] = AcceptedStatus]
  /\ lastOp' = "other"
  /\ UNCHANGED <<sideVars, variant, heyreachConfigured, qualifiedDir, disqualifiedDir, heyreachList,
                 bs, syncResult>>
  /\ UNCHANGED <<apiVars, sideVars>>

\* ------------------------------------------------------ src/mcp-server.js
\* saveQualification(profileName, qualificationData): the MCP tool's variant
\* writes the file and makes no Heyreach call; it runs inside the
\* save_qualification handler, which sets toolCall
McpSaveQualificationOf(allProfiles, profileName, qualified, score) ==
  LET found == {i \in 1..Len(allProfiles) : allProfiles[i].name = profileName} IN
  /\ variant = "file"
  /\ Len(qualifiedDir) + Len(disqualifiedDir) < MaxFiles
  /\ found # {}
  /\ LET profile == allProfiles[Min(found)]
         base == [name |-> profile.name, url |-> profile.url,
                  isQualified |-> FALSE,
                  qualified |-> qualified, score |-> score,
                  heyreach |-> NoHeyreach,
                  connectionAccepted |-> FALSE, heyreachLeadId |-> 0]
     IN IF IsQualifying(qualified, score)
          THEN /\ qualifiedDir' = Append(qualifiedDir, [base EXCEPT !.isQualified = TRUE])
               /\ UNCHANGED disqualifiedDir
          ELSE /\ disqualifiedDir' = Append(disqualifiedDir, base)
               /\ UNCHANGED qualifiedDir
  /\ lastOp' = "other"
  /\ UNCHANGED <<variant, heyreachConfigured, heyreachList, leadStatus, bs, syncResult>>
  /\ UNCHANGED <<apiVars, quotaVars, apiFollow, restVars>>

\* saveQualification on the profiles of the loaded CSV
McpSaveQualification(profileName, qualified, score) ==
  McpSaveQualificationOf(csv, profileName, qualified, score)

\* getProcessedProfileNames(): the names in data/qualified and data/disqualified
getProcessedProfileNames ==
  {qualifiedDir[i].name : i \in 1..Len(qualifiedDir)}
    \cup {disqualifiedDir[j].name : j \in 1..Len(disqualifiedDir)}

\* getNextUnqualifiedProfile(): the position in the CSV of the first profile
\* that is not processed yet; 0 stands for null
getNextUnqualifiedProfile ==
  LET unprocessed == {c \in 1..Len(csv) : csv[c].name \notin getProcessedProfileNames}
  IN IF unprocessed = {} THEN 0 ELSE Min(unprocessed)

\* allProfiles.filter(p => !processedNames.has(p.name)) of getUnqualifiedCount()
\* and getNextBatch(): the positions still offered for classification
unprocessedOf(allProfiles) ==
  {c \in 1..Len(allProfiles) : allProfiles[c].name \notin getProcessedProfileNames}

\* limits of the save_qualification handler
maxTextChars == 500
maxItemChars == 100
maxListItems == 5

\* the validation without the checks of the list items' lengths
validationErrors_NoItemChars(args) ==
  (IF args.reasoning > maxTextChars THEN {"reasoning"} ELSE {})
  \cup (IF args.recommendedApproach > maxTextChars THEN {"recommendedApproach"} ELSE {})
  \cup (IF Len(args.strengths) > maxListItems THEN {"strengths items"} ELSE {})
  \cup (IF Len(args.concerns) > maxListItems THEN {"concerns items"} ELSE {})

\* the handler's validationErrors for the lengths of the text arguments
validationErrors(args) ==
  (IF args.reasoning > maxTextChars THEN {"reasoning"} ELSE {})
  \cup (IF args.recommendedApproach > maxTextChars THEN {"recommendedApproach"} ELSE {})
  \cup (IF Len(args.strengths) > maxListItems THEN {"strengths items"} ELSE {})
  \cup (IF \E k \in 1..Len(args.strengths) : args.strengths[k] > maxItemChars
          THEN {"strengths chars"} ELSE {})
  \cup (IF Len(args.concerns) > maxListItems THEN {"concerns items"} ELSE {})
  \cup (IF \E k \in 1..Len(args.concerns) : args.concerns[k] > maxItemChars
          THEN {"concerns chars"} ELSE {})

\* case 'save_qualification': validate the lengths, then saveQualification;
\* a validation failure and a thrown error both answer isError and save nothing.
\* args holds the lengths of the text arguments.
SaveQualificationToolOf(allProfiles, profileName, qualified, score, args) ==
  LET call == [reasoning |-> args.reasoning, recommendedApproach |-> args.recommendedApproach,
               strengths |-> args.strengths, concerns |-> args.concerns, isError |-> FALSE]
  IN /\ variant = "file"
     /\ IF validationErrors(args) # {} \/ (\A i \in 1..Len(allProfiles) : allProfiles[i].name # profileName)
          THEN /\ toolCall' = [call EXCEPT !.isError = TRUE]
               /\ lastOp' = "other"
               /\ UNCHANGED <<variant, heyreachConfigured, qualifiedDir, disqualifiedDir,
                              heyreachList, leadStatus, bs, syncResult>>
               /\ UNCHANGED <<apiVars, quotaVars, apiFollow, restVars>>
          ELSE /\ toolCall' = call
               /\ McpSaveQualificationOf(allProfiles, profileName, qualified, score)

\* the handler on the profiles of the loaded CSV
SaveQualificationTool(profileName, qualified, score, args) ==
  SaveQualificationToolOf(csv, profileName, qualified, score, args)

\* ------------------------------------------------------------ src/stats.js
\* loadStats(): the stored stats, or the defaults when data/stats.json is
\* missing or JSON.parse throws on it
loadStats == IF statsFile.state = "ok" THEN statsFile.stats ELSE DefaultStats

\* today's count read from the total over all days
getTodayViews_Total == loadStats.totalProfilesViewed

\* getTodayStats().profilesViewed
getTodayViews == loadStats.dailyStats[today]

\* the ceiling test with <= in place of <
canViewMoreProfiles_Inclusive == getTodayViews <= maxViews

\* canViewMoreProfiles(): todayStats.profilesViewed < maxViews
canViewMoreProfiles == getTodayViews < maxViews

\* getRemainingViews(): Math.max(0, maxViews - todayStats.profilesViewed)
getRemainingViews == IF maxViews - getTodayViews > 0 THEN maxViews - getTodayViews ELSE 0

\* the stats incrementProfileViews() passes to saveStats
incrementProfileViews ==
  [dailyStats |-> [loadStats.dailyStats EXCEPT ![today] = @ + 1],
   totalProfilesViewed |-> loadStats.totalProfilesViewed + 1]

\* readFileSync() and JSON.parse() on data/stats.json: the stored object, or a
\* SyntaxError on a text that was cut short
parseStatsFile ==
  IF statsFile.state = "truncated"
    THEN [threw |-> TRUE, value |-> DefaultStats]
    ELSE [threw |-> FALSE, value |-> statsFile.stats]

\* loadStats() with the exception of the parse leaving it
loadStatsCall_NoCatch ==
  IF statsFile.state = "absent"
    THEN [threw |-> FALSE, value |-> DefaultStats]
    ELSE parseStatsFile

\* loadStats() as a call: existsSync() decides on the defaults, and the read
\* and the parse run inside a try whose catch returns the defaults
loadStatsCall ==
  IF statsFile.state = "absent"
    THEN [threw |-> FALSE, value |-> DefaultStats]
    ELSE IF parseStatsFile.threw
           THEN [threw |-> FALSE, value |-> DefaultStats]
           ELSE parseStatsFile

\* getTodayStats() raises when loadStats() does, or with a TypeError when what
\* it returned has no dailyStats to index
getTodayStatsThrows ==
  \/ loadStatsCall.threw
  \/ "dailyStats" \notin DOMAIN loadStatsCall.value

\* incrementProfileViews() raises as getTodayStats() does, or when there is no
\* total to add to; saveStats() swallows every error of its write
incrementProfileViewsThrows ==
  \/ getTodayStatsThrows
  \/ "totalProfilesViewed" \notin DOMAIN loadStatsCall.value

QuotaFrame ==
  /\ UNCHANGED <<cliVars, apiVars, toolCall, maxViews, apiFollow, restVars>>

\* ---------------------------------------------------------- src/scraper.js
\* scrapeFromSalesNav(page, searchUrl, maxProfiles) begins: it returns at once
\* when the daily limit is reached
ScrapeStart(maxProfiles) ==
  /\ variant = "scrape"
  /\ ~scraper.running
  /\ scraper' = [running |-> canViewMoreProfiles, profilesScraped |-> 0,
                 maxProfiles |-> maxProfiles]
  /\ scrapeErrors' = [scrapeErrors EXCEPT !.failed = {}]
  /\ UNCHANGED <<today, statsFile, recorded, crashes>>
  /\ UNCHANGED <<cliVars, apiVars, toolCall, maxViews, apiFollow, followVars, hookVars,
                 viewers, pageVars>>

\* one pass of the while loop: the loop test, scrapeProfile with its
\* incrementProfileViews(), and the limit test at the bottom of the loop
ScrapeNext ==
  /\ scraper.running
  /\ IF scraper.profilesScraped < scraper.maxProfiles /\ canViewMoreProfiles
       THEN /\ statsFile' = [state |-> "ok", stats |-> incrementProfileViews]
            /\ recorded' = [recorded EXCEPT ![today] = @ + 1]
            /\ scraper' = [scraper EXCEPT
                             !.profilesScraped = @ + 1,
                             !.running = incrementProfileViews.dailyStats[today] < maxViews]
       ELSE /\ scraper' = [scraper EXCEPT !.running = FALSE]
            /\ UNCHANGED <<statsFile, recorded>>
  /\ UNCHANGED <<today, crashes>>
  /\ QuotaFrame

\* one pass of the while loop in which scrapeProfile fails before it saves:
\* its catch calls incrementErrors() and returns null, profilesScraped stays
\* as it is, and the next pass takes the link at the same position
ScrapeFails ==
  /\ scraper.running
  /\ scraper.profilesScraped < scraper.maxProfiles /\ canViewMoreProfiles
  /\ scrapeErrors.errors < MaxErrors
  /\ scrapeErrors' = [errors |-> scrapeErrors.errors + 1,
                      failed |-> scrapeErrors.failed \cup {scraper.profilesScraped}]
  /\ UNCHANGED <<today, statsFile, recorded, crashes, scraper>>
  /\ UNCHANGED <<cliVars, apiVars, toolCall, maxViews, apiFollow, followVars, hookVars,
                 viewers, pageVars>>

\* the process is killed between two passes of the loop
ScrapeKilled ==
  /\ scraper.running
  /\ crashes < MaxCrashes
  /\ crashes' = crashes + 1
  /\ scraper' = [scraper EXCEPT !.running = FALSE]
  /\ UNCHANGED <<today, statsFile, recorded>>
  /\ QuotaFrame

\* the process is killed inside saveStats' writeFileSync, which truncates the
\* file and then writes it: the file is left cut short, or complete
ScrapeKilledInSave(left) ==
  /\ scraper.running
  /\ scraper.profilesScraped < scraper.maxProfiles /\ canViewMoreProfiles
  /\ crashes < MaxCrashes
  /\ crashes' = crashes + 1
  /\ statsFile' = IF left = "complete"
                    THEN [state |-> "ok", stats |-> incrementProfileViews]
                    ELSE [state |-> "truncated", stats |-> DefaultStats]
  /\ scraper' = [scraper EXCEPT !.running = FALSE]
  /\ UNCHANGED <<today, recorded>>
  /\ QuotaFrame

\* midnight passes: getTodayString() returns the next day
NextDay ==
  /\ variant = "scrape"
  /\ today < MaxDays
  /\ today' = today + 1
  /\ UNCHANGED <<statsFile, recorded, crashes, scraper>>
  /\ QuotaFrame

\* ------------------------------- two scraper processes on one data/stats.json
ViewersFrame ==
  UNCHANGED <<cliVars, apiVars, toolCall, maxViews, crashes, scraper, apiFollow,
              followVars, hookVars, pageVars, scrapeErrors>>

\* the loop test of scrapeFromSalesNav in process p: canViewMoreProfiles()
\* lets scrapeProfile begin
ViewCheck(p) ==
  /\ variant = "scrape"
  /\ viewers[p].pc = "idle"
  /\ recorded[today] < maxViews + Cardinality(Procs)
  /\ canViewMoreProfiles
  /\ viewers' = [viewers EXCEPT ![p].pc = "scraping"]
  /\ UNCHANGED <<today, statsFile, recorded>>
  /\ ViewersFrame

\* incrementProfileViews() in process p, its loadStats() (readFileSync) and
\* getTodayString()
IncrementLoad(p) ==
  /\ viewers[p].pc = "scraping"
  /\ viewers' = [viewers EXCEPT ![p] = [pc |-> "loaded", stats |-> loadStats, day |-> today]]
  /\ UNCHANGED <<today, statsFile, recorded>>
  /\ ViewersFrame

\* incrementProfileViews() in process p, the increments and saveStats():
\* writeFileSync of the stats it loaded, plus one
IncrementSave(p) ==
  /\ viewers[p].pc = "loaded"
  /\ LET stats == viewers[p].stats
         day == viewers[p].day
     IN /\ statsFile' = [state |-> "ok",
                         stats |-> [dailyStats |-> [stats.dailyStats EXCEPT ![day] = @ + 1],
                                    totalProfilesViewed |-> stats.totalProfilesViewed + 1]]
        /\ recorded' = [recorded EXCEPT ![day] = @ + 1]
  /\ viewers' = [viewers EXCEPT ![p] = IdleViewer]
  /\ UNCHANGED today
  /\ ViewersFrame

\* a row DELETE has removed; ids are AUTOINCREMENT and are not handed out again
DeletedRow == [linkedin_url |-> NoUrl, name |-> "", status |-> "deleted"]

\* SELECT ... FROM profiles WHERE id = ? returns a row
RowExists(id) == id <= Len(profilesTbl) /\ profilesTbl[id] # DeletedRow

\* ------------------------------------------------- routes/profiles.js
\* POST /api/profiles/import, one CSV record: INSERT ... ON CONFLICT(linkedin_url)
\* DO UPDATE; the conflict is on the stored string
ApiImport(c) ==
  LET row == csv[c]
      hit == {i \in 1..Len(profilesTbl) :
                RowExists(i) /\ profilesTbl[i].linkedin_url = row.url}
  IN /\ variant = "api"
     /\ row.url # NoUrl
     /\ hit = {} => Len(profilesTbl) < Cardinality(ProfileIds)
     /\ profilesTbl' =
          IF hit = {}
            THEN Append(profilesTbl,
                        [linkedin_url |-> row.url, name |-> row.name, status |-> "new"])
            ELSE [profilesTbl EXCEPT ![Min(hit)].name = row.name]
     /\ lastOp' = "other"
     /\ UNCHANGED <<qualTbl, outreachTbl, connTbl, send, syncResponse, llmSeen>>
     /\ UNCHANGED <<sideVars, variant, heyreachConfigured, qualifiedDir, disqualifiedDir,
                    heyreachList, leadStatus, bs, syncResult>>

\* the values of profiles.status (schema comment): new|qualified|rejected|contacted
Statuses == {"new", "qualified", "rejected", "contacted"}

\* PATCH /api/profiles/:id with a status in the body: 404 without the row,
\* otherwise UPDATE profiles SET status = ? with the value as given
ApiPatch(id, status) ==
  /\ variant = "api"
  /\ IF ~RowExists(id)
       THEN UNCHANGED profilesTbl
       ELSE profilesTbl' = [profilesTbl EXCEPT ![id].status = status]
  /\ lastOp' = "other"
  /\ UNCHANGED <<qualTbl, outreachTbl, connTbl, send, syncResponse, llmSeen>>
  /\ UNCHANGED <<sideVars, variant, heyreachConfigured, qualifiedDir, disqualifiedDir,
                 heyreachList, leadStatus, bs, syncResult>>

\* DELETE /api/profiles/:id: 404 without the row, otherwise DELETE FROM profiles;
\* the rows of qualifications, outreach_tracking and connections that reference
\* it go with it (ON DELETE CASCADE, PRAGMA foreign_keys = ON)
ApiDelete(id) ==
  /\ variant = "api"
  /\ IF ~RowExists(id)
       THEN UNCHANGED <<profilesTbl, qualTbl, outreachTbl, connTbl, apiFollow>>
       ELSE /\ profilesTbl' = [profilesTbl EXCEPT ![id] = DeletedRow]
            /\ qualTbl' = [qualTbl EXCEPT ![id] = NoQualification]
            /\ outreachTbl' = [outreachTbl EXCEPT ![id] = NoOutreach]
            /\ connTbl' = [connTbl EXCEPT ![id] = NoConnection]
            /\ apiFollow' = [apiFollow EXCEPT ![id] = NoFollowUp]
  /\ lastOp' = "other"
  /\ UNCHANGED <<send, syncResponse, llmSeen>>
  /\ UNCHANGED <<toolCall, quotaVars, restVars, variant, heyreachConfigured, qualifiedDir, disqualifiedDir,
                 heyreachList, leadStatus, bs, syncResult>>

\* ------------------------------------------- routes/qualifications.js
\* The LLM's response text is the sequence of its pieces: "{" and "}" are
\* pieces of their own, "w" is a run of prose without braces, and a verdict
\* piece is the member list "qualified": <bool>, "score": <n> of an object.
VerdictPieces == {"T85", "T50", "F85", "F50"}

VerdictPiece(qualified, score) ==
  IF qualified THEN (IF score = 85 THEN "T85" ELSE "T50")
  ELSE (IF score = 85 THEN "F85" ELSE "F50")

PieceQualified(t) == t \in {"T85", "T50"}
PieceScore(t) == IF t \in {"T85", "F85"} THEN 85 ELSE 50

\* responseText.match(/\{[\s\S]*\}/): the greedy match runs from the first
\* "{" to the last "}" of the text; <<>> stands for no match
JsonMatch(text) ==
  LET opens == {i \in 1..Len(text) : text[i] = "{"}
      closes == {j \in 1..Len(text) : text[j] = "}"}
  IN IF opens = {} THEN <<>>
     ELSE LET first == Min(opens)
              after == {j \in closes : j > first}
          IN IF after = {} THEN <<>>
             ELSE SubSeq(text, first, CHOOSE j \in after : \A k \in after : k <= j)

\* JSON.parse of matched pieces: an object with the verdict members, the
\* empty object, or a SyntaxError
JsonParse(m) ==
  IF m = <<"{", "}">>
    THEN [ok |-> TRUE, typed |-> FALSE, qualified |-> FALSE, score |-> 0]
  ELSE IF Len(m) = 3 /\ m[1] = "{" /\ m[3] = "}" /\ m[2] \in VerdictPieces
    THEN [ok |-> TRUE, typed |-> TRUE, qualified |-> PieceQualified(m[2]),
          score |-> PieceScore(m[2])]
  ELSE [ok |-> FALSE, typed |-> FALSE, qualified |-> FALSE, score |-> 0]

\* parse and validate the LLM response: ok = an analysis with a boolean
\* qualified and a numeric score came out
ParseAnalysis(llm) ==
  LET m == JsonMatch(llm.response)
      a == JsonParse(m)
  IN IF llm.ok /\ m # <<>> /\ a.ok /\ a.typed
       THEN a
       ELSE [ok |-> FALSE, typed |-> FALSE, qualified |-> FALSE, score |-> 0]

\* POST /api/qualifications for an existing, not yet qualified profile, given
\* what callLLMRouter returns or that it throws: on an LLM error, a parse
\* failure or an invalid structure the handler answers 500 and stores nothing
ApiQualifyLLM(id, llm) ==
  /\ variant = "api"
  /\ RowExists(id)
  /\ ~qualTbl[id].present
  /\ llmSeen' = [profile_id |-> id, ok |-> llm.ok, response |-> llm.response]
  /\ LET a == ParseAnalysis(llm)
     IN IF a.ok
          THEN /\ qualTbl' = [qualTbl EXCEPT ![id] =
                                [present |-> TRUE, qualified |-> a.qualified, score |-> a.score]]
               /\ profilesTbl' = [profilesTbl EXCEPT ![id].status =
                                    IF a.qualified THEN "qualified" ELSE "rejected"]
          ELSE UNCHANGED <<qualTbl, profilesTbl>>
  /\ lastOp' = "other"
  /\ UNCHANGED <<outreachTbl, connTbl, send, syncResponse>>
  /\ UNCHANGED <<sideVars, variant, heyreachConfigured, qualifiedDir, disqualifiedDir,
                 heyreachList, leadStatus, bs, syncResult>>

\* POST /api/qualifications with a well-formed analysis from the LLM Router
ApiQualify(id, qualified, score) ==
  ApiQualifyLLM(id, [ok |-> TRUE, response |-> <<"{", VerdictPiece(qualified, score), "}">>])

\* ----------------------------------------------- routes/outreach.js
ApiFrame == UNCHANGED <<sideVars, variant, heyreachConfigured, qualifiedDir, disqualifiedDir,
                        leadStatus, bs, syncResult, syncResponse, llmSeen>>

\* the loop moves to the next id, or the response is sent
NextId(r, ok) ==
  [pc |-> IF Len(send[r].ids) = 1 THEN "idle" ELSE "select",
   ids |-> Tail(send[r].ids),
   sent |-> IF ok THEN send[r].sent + 1 ELSE send[r].sent,
   failed |-> IF ok THEN send[r].failed ELSE send[r].failed + 1]

\* POST /api/outreach/send arrives
ApiSendStart(r, body) ==
  /\ variant = "api"
  /\ send[r].pc = "idle"
  /\ send' = [send EXCEPT ![r] = [pc |-> "select", ids |-> body, sent |-> 0, failed |-> 0]]
  /\ lastOp' = "other"
  /\ UNCHANGED <<profilesTbl, qualTbl, outreachTbl, connTbl, heyreachList>>
  /\ ApiFrame

\* profile.qualified of the LEFT JOIN
JoinedQualified(id) == qualTbl[id].present /\ qualTbl[id].qualified

\* loop body up to the request to Heyreach: profile lookup, qualified check,
\* already-sent check, sendToHeyreach's configuration check
ApiSendSelect(r) ==
  /\ send[r].pc = "select"
  /\ LET id == Head(send[r].ids)
     IN IF \/ ~RowExists(id)
           \/ ~JoinedQualified(id)
           \/ outreachTbl[id].present
           \/ ~heyreachConfigured
          THEN send' = [send EXCEPT ![r] = NextId(r, FALSE)]
          ELSE send' = [send EXCEPT ![r].pc = "sending"]
  /\ lastOp' = "other"
  /\ UNCHANGED <<profilesTbl, qualTbl, outreachTbl, connTbl, heyreachList>>
  /\ ApiFrame

\* response.ok
ResponseOk(resp) == resp.kind = "http" /\ resp.status >= 200 /\ resp.status <= 299

\* sendToHeyreach returns or throws into the per-id catch block
ApiSendResponse(r, resp) ==
  /\ send[r].pc = "sending"
  /\ LET id == Head(send[r].ids)
         url == profilesTbl[id].linkedin_url
     IN IF ResponseOk(resp)
          THEN /\ heyreachList[url] < MaxAdds
               /\ heyreachList' = [heyreachList EXCEPT ![url] = @ + 1]
               /\ send' = [send EXCEPT ![r].pc = "track"]
          ELSE /\ send' = [send EXCEPT ![r] = NextId(r, FALSE)]
               /\ UNCHANGED heyreachList
  /\ lastOp' = "other"
  /\ UNCHANGED <<profilesTbl, qualTbl, outreachTbl, connTbl>>
  /\ ApiFrame

\* INSERT INTO outreach_tracking; UNIQUE(profile_id) makes a second insert throw
ApiSendTrack(r) ==
  /\ send[r].pc = "track"
  /\ LET id == Head(send[r].ids)
     IN IF outreachTbl[id].present
          THEN /\ send' = [send EXCEPT ![r] = NextId(r, FALSE)]
               /\ UNCHANGED outreachTbl
          ELSE /\ outreachTbl' = [outreachTbl EXCEPT ![id] =
                                    [present |-> TRUE, status |-> "sent",
                                     heyreach_lead_id |-> profilesTbl[id].linkedin_url]]
               /\ send' = [send EXCEPT ![r].pc = "status"]
  /\ lastOp' = "other"
  /\ UNCHANGED <<profilesTbl, qualTbl, connTbl, heyreachList>>
  /\ ApiFrame

\* UPDATE profiles SET status = 'contacted'; results.push
ApiSendStatus(r) ==
  /\ send[r].pc = "status"
  /\ LET id == Head(send[r].ids)
     IN /\ profilesTbl' = [profilesTbl EXCEPT ![id].status = "contacted"]
        /\ send' = [send EXCEPT ![r] = NextId(r, TRUE)]
  /\ lastOp' = "other"
  /\ UNCHANGED <<qualTbl, outreachTbl, connTbl, heyreachList>>
  /\ ApiFrame

\* the API server process is stopped while request r is in its loop: the
\* statements that have run stay committed, the rest of the loop does not run
ApiSendKilled(r) ==
  /\ send[r].pc # "idle"
  /\ send' = [send EXCEPT ![r] = IdleSend]
  /\ lastOp' = "other"
  /\ UNCHANGED <<profilesTbl, qualTbl, outreachTbl, connTbl, heyreachList>>
  /\ ApiFrame

\* --------------------------------------------- routes/connections.js
\* SELECT id FROM profiles WHERE linkedin_url = ?
ProfileByUrl(url) ==
  {i \in 1..Len(profilesTbl) : RowExists(i) /\ profilesTbl[i].linkedin_url = url}

\* POST /api/connections/sync, the lead loop from lead l to lead last
\* POST /api/connections/sync, the lead loop from lead l to lead last
RECURSIVE SyncLeadsTo(_, _, _, _, _, _)
SyncLeadsTo(l, last, conn, out, newConnections, updatedConnections) ==
  IF l > last
    THEN [conn |-> conn, out |-> out, new_connections |-> newConnections,
          updated_connections |-> updatedConnections]
  ELSE
    LET lead == ApiLeads[l]
        found == ProfileByUrl(lead.linkedInProfileURL)
    IN IF leadStatus[l] # AcceptedStatus \/ found = {}
         THEN SyncLeadsTo(l + 1, last, conn, out, newConnections, updatedConnections)
       ELSE
         LET id == Min(found)
             out2 == IF out[id].present THEN [out EXCEPT ![id].status = "accepted"] ELSE out
         IN IF conn[id].present
              THEN SyncLeadsTo(l + 1, last, [conn EXCEPT ![id].heyreach_lead_id = lead.id], out2,
                             newConnections, updatedConnections + 1)
              ELSE SyncLeadsTo(l + 1, last,
                             [conn EXCEPT ![id] = [present |-> TRUE, heyreach_lead_id |-> lead.id]],
                             out2, newConnections + 1, updatedConnections)

\* the lead loop run to its end
SyncLeads(l, conn, out, newConnections, updatedConnections) ==
  SyncLeadsTo(l, Len(ApiLeads), conn, out, newConnections, updatedConnections)

ApiSync ==
  /\ variant = "api"
  /\ heyreachConfigured
  /\ LET u == SyncLeads(1, connTbl, outreachTbl, 0, 0)
     IN /\ connTbl' = u.conn
        /\ outreachTbl' = u.out
        /\ syncResponse' = [new_connections |-> u.new_connections,
                            updated_connections |-> u.updated_connections]
  /\ lastOp' = "sync"
  /\ UNCHANGED <<profilesTbl, qualTbl, send, llmSeen>>
  /\ UNCHANGED <<sideVars, variant, heyreachConfigured, qualifiedDir, disqualifiedDir,
                 heyreachList, leadStatus, bs, syncResult>>

\* POST /api/connections/:id/message with body {message, send_now}: 400 without
\* a message, 404 without the connection, otherwise the message is stored and
\* follow_up_sent is set to send_now
ApiSaveMessage(id, message, send_now) ==
  /\ variant = "api"
  /\ IF message = 0 \/ ~connTbl[id].present
       THEN UNCHANGED apiFollow
       ELSE apiFollow' = [apiFollow EXCEPT ![id] =
                            [follow_up_message |-> message, follow_up_sent |-> send_now]]
  /\ lastOp' = "other"
  /\ UNCHANGED <<apiVars, toolCall, quotaVars, restVars>>
  /\ UNCHANGED <<variant, heyreachConfigured, qualifiedDir, disqualifiedDir,
                 heyreachList, leadStatus, bs, syncResult>>

\* PATCH /api/connections/:id with follow_up_sent in the body
ApiPatchConnection(id, follow_up_sent) ==
  /\ variant = "api"
  /\ IF ~connTbl[id].present
       THEN UNCHANGED apiFollow
       ELSE apiFollow' = [apiFollow EXCEPT ![id].follow_up_sent = follow_up_sent]
  /\ lastOp' = "other"
  /\ UNCHANGED <<apiVars, toolCall, quotaVars, restVars>>
  /\ UNCHANGED <<variant, heyreachConfigured, qualifiedDir, disqualifiedDir,
                 heyreachList, leadStatus, bs, syncResult>>

\* ------------------------------------------------- the outreach tools (MCP)
FollowFrame ==
  /\ lastOp' = "other"
  /\ UNCHANGED <<variant, heyreachConfigured, qualifiedDir, disqualifiedDir,
                 heyreachList, leadStatus, bs, syncResult>>
  /\ UNCHANGED <<apiVars, toolCall, quotaVars, apiFollow, hookVars, viewers, pageVars,
                 scrapeErrors>>

\* save_outreach: stores the generated message, not approved
SaveOutreach(i, text) ==
  /\ variant = "file"
  /\ i <= Len(qualifiedDir)
  /\ outreach' = [outreach EXCEPT ![i].outreachMessage = text,
                                  ![i].outreachApproved = FALSE,
                                  ![i].messageSent = FALSE]
  /\ UNCHANGED <<approvedTexts, msgSender>>
  /\ FollowFrame

\* approve_outreach: marks the message as approved
ApproveOutreach(i) ==
  /\ variant = "file"
  /\ i <= Len(qualifiedDir)
  /\ outreach[i].outreachMessage # 0
  /\ outreach' = [outreach EXCEPT ![i].outreachApproved = TRUE]
  /\ approvedTexts' = [approvedTexts EXCEPT ![i] = @ \cup {outreach[i].outreachMessage}]
  /\ UNCHANGED msgSender
  /\ FollowFrame

\* revise_outreach: updates the message and clears the approval
ReviseOutreach(i, text) ==
  /\ variant = "file"
  /\ i <= Len(qualifiedDir)
  /\ outreach[i].outreachMessage # 0
  /\ outreach' = [outreach EXCEPT ![i].outreachMessage = text, ![i].outreachApproved = FALSE]
  /\ UNCHANGED <<approvedTexts, msgSender>>
  /\ FollowFrame

\* markAsContacted(profileName) of the MCP server: the first file of
\* data/qualified with that name is read, given outreach.contacted, and written
\* back; without such a file it throws
MarkAsContacted(profileName) ==
  LET found == {i \in 1..Len(qualifiedDir) : qualifiedDir[i].name = profileName}
  IN /\ variant = "file"
     /\ found # {}
     /\ outreach' = [outreach EXCEPT ![Min(found)].contacted = TRUE]
     /\ UNCHANGED <<approvedTexts, msgSender>>
     /\ FollowFrame

\* getNextToContact(): the first qualified file, in directory order, without
\* outreach.contacted; 0 for null
getNextToContact ==
  LET uncontacted == {i \in 1..Len(qualifiedDir) : ~outreach[i].contacted}
  IN IF uncontacted = {} THEN 0 ELSE Min(uncontacted)

\* one pass of a caller's loop over the MCP tools: get_next_to_contact, then
\* mark_contacted with the name of the profile it returned
ContactNext ==
  /\ getNextToContact # 0
  /\ MarkAsContacted(qualifiedDir[getNextToContact].name)

\* ------------------------------------- src/unnamed/part_016 (message sender)
\* loadProfilesReadyForMessage(): connected + approved + has message + not
\* sent yet, each with the profile as read
RECURSIVE loadProfilesReadyForMessage(_)
loadProfilesReadyForMessage(i) ==
  IF i > Len(qualifiedDir) THEN <<>>
  ELSE IF /\ qualifiedDir[i].connectionAccepted
          /\ outreach[i].outreachApproved
          /\ outreach[i].outreachMessage # 0
          /\ ~outreach[i].messageSent
    THEN <<[filepath |-> i, profile |-> outreach[i]]>> \o loadProfilesReadyForMessage(i + 1)
  ELSE loadProfilesReadyForMessage(i + 1)

\* sendMessagesToReadyProfiles up to its loop
SendMessagesStart ==
  /\ variant = "file"
  /\ msgSender.pc = "idle"
  /\ LET profiles == loadProfilesReadyForMessage(1)
     IN msgSender' = IF profiles = <<>> THEN IdleSender
                     ELSE [pc |-> "sending", queue |-> profiles]
  /\ UNCHANGED <<outreach, approvedTexts>>
  /\ FollowFrame

\* one pass of the loop: sendLinkedInMessage returns or throws, and the
\* profile as loaded is written back with messageSent set
SendMessagesItem(ok) ==
  /\ msgSender.pc = "sending"
  /\ LET item == Head(msgSender.queue)
         rest == Tail(msgSender.queue)
     IN /\ outreach' = [outreach EXCEPT ![item.filepath] =
                          [item.profile EXCEPT !.messageSent = ok]]
        /\ msgSender' = IF rest = <<>> THEN IdleSender
                        ELSE [pc |-> "sending", queue |-> rest]
  /\ UNCHANGED approvedTexts
  /\ FollowFrame

\* POST /api/connections/sync where the database rejects the connections
\* statement of lead k (SQLITE_BUSY, or UNIQUE(profile_id) against a row another
\* request inserted): the statements of the leads before k are committed, the
\* rejection leaves the loop through next(error) and the response is a 500
ApiSyncDbError(k) ==
  /\ variant = "api"
  /\ heyreachConfigured
  /\ leadStatus[k] = AcceptedStatus
  /\ ProfileByUrl(ApiLeads[k].linkedInProfileURL) # {}
  /\ LET u == SyncLeadsTo(1, k - 1, connTbl, outreachTbl, 0, 0)
     IN /\ connTbl' = u.conn
        /\ outreachTbl' = u.out
  /\ lastOp' = "syncError"
  /\ UNCHANGED <<profilesTbl, qualTbl, send, syncResponse, llmSeen>>
  /\ UNCHANGED <<sideVars, variant, heyreachConfigured, qualifiedDir, disqualifiedDir,
                 heyreachList, leadStatus, bs, syncResult>>

\* ------------------------------------------- pages of campaign leads
\* the Heyreach service: the leads after the first offset ones, limit at most
LeadsPage(offset, limit) ==
  [i \in 1..(IF campaign.leads - offset > limit THEN limit
             ELSE IF campaign.leads - offset > 0 THEN campaign.leads - offset
             ELSE 0) |-> offset + i]

PageFrame ==
  UNCHANGED <<cliVars, apiVars, toolCall, quotaVars, apiFollow, followVars, hookVars,
              viewers, campaign, scrapeErrors>>

\* getAllCampaignLeads(campaignId) begins with offset 0
GetAllCampaignLeadsStart ==
  /\ variant = "pages"
  /\ fileLoop.pc = "idle"
  /\ fileLoop' = [IdleLoop EXCEPT !.pc = "fetching"]
  /\ UNCHANGED apiLoop
  /\ PageFrame

\* one pass of its while (true) loop: getCampaignLeads, then the three tests
GetAllCampaignLeadsPage ==
  /\ fileLoop.pc = "fetching"
  /\ LET leads == LeadsPage(fileLoop.at, PageSize)
         allLeads == fileLoop.leads \o leads
         asked == [fileLoop EXCEPT !.requests = @ + 1, !.last = Len(leads)]
     IN fileLoop' =
          IF Len(leads) = 0
            THEN [asked EXCEPT !.pc = "done"]
          ELSE IF campaign.totalCount # 0 /\ Len(allLeads) >= campaign.totalCount
            THEN [asked EXCEPT !.pc = "done", !.leads = allLeads]
          ELSE IF Len(leads) < PageSize
            THEN [asked EXCEPT !.pc = "done", !.leads = allLeads]
          ELSE [asked EXCEPT !.leads = allLeads, !.at = @ + PageSize]
  /\ UNCHANGED apiLoop
  /\ PageFrame

\* POST /api/connections/sync begins with page 1
ApiSyncPagesStart ==
  /\ variant = "pages"
  /\ apiLoop.pc = "idle"
  /\ apiLoop' = [IdleLoop EXCEPT !.pc = "fetching", !.at = 1]
  /\ UNCHANGED fileLoop
  /\ PageFrame

\* one pass of its while (hasMore) loop: fetchHeyreachLeads, the lead loop,
\* then the test of the page's length
ApiSyncPage ==
  /\ apiLoop.pc = "fetching"
  /\ LET leads == LeadsPage((apiLoop.at - 1) * PageSize, PageSize)
         asked == [apiLoop EXCEPT !.requests = @ + 1, !.last = Len(leads)]
     IN apiLoop' =
          IF Len(leads) = 0
            THEN [asked EXCEPT !.pc = "done"]
          ELSE IF Len(leads) < PageSize
            THEN [asked EXCEPT !.pc = "done", !.leads = @ \o leads]
          ELSE [asked EXCEPT !.leads = @ \o leads, !.at = @ + 1]
  /\ UNCHANGED fileLoop
  /\ PageFrame

\* ------------------------------------------------------- the webhook bot
HookFrame ==
  UNCHANGED <<cliVars, apiVars, toolCall, quotaVars, apiFollow, followVars, viewers, pageVars,
              scrapeErrors>>

\* POST /webhook/linkedin-helper with a valid payload, up to createContact's
\* redis.set: the value at the key is replaced by a new pending contact
WebhookReceive(k) ==
  /\ variant = "hook"
  /\ tasks[k].pc = "none"
  /\ \A j \in Hooks : j < k => tasks[j].pc # "none"
  /\ contact' = [present |-> TRUE, rawData |-> k, status |-> "pending", tier |-> "",
                 qualificationReason |-> "", roleDetected |-> "", processedAt |-> FALSE]
  /\ tasks' = [tasks EXCEPT ![k].pc = "created", ![k].rawData = k]
  /\ UNCHANGED statusSets
  /\ HookFrame

\* the rest of the handler: redis.sadd(PENDING_SET), triggerAsyncProcessing's
\* setImmediate, and the 200 response
WebhookQueue(k) ==
  /\ tasks[k].pc = "created"
  /\ statusSets' = [statusSets EXCEPT !.pending = TRUE]
  /\ tasks' = [tasks EXCEPT ![k].pc = "queued"]
  /\ UNCHANGED contact
  /\ HookFrame

\* processContact, step 1: getContact
ProcessGet(k) ==
  /\ tasks[k].pc = "queued"
  /\ tasks' = [tasks EXCEPT ![k].pc = IF contact.present THEN "qualifying" ELSE "done",
                            ![k].rawData = contact.rawData]
  /\ UNCHANGED <<contact, statusSets>>
  /\ HookFrame

\* what the LLM Router call of qualifyProfile can come to
HookLlm == {"TIER_1", "SKIP", "error", "unparseable"}

\* qualifyProfile: the parsed decision, or SKIP with the error as the reason
\* when the call fails or parseResult cannot parse the response
qualifyProfile(llm) ==
  IF llm = "error"
    THEN [decision |-> "SKIP", reason |-> "Error during qualification", roleDetected |-> ""]
  ELSE IF llm = "unparseable"
    THEN [decision |-> "SKIP", reason |-> "Failed to parse LLM response", roleDetected |-> ""]
  ELSE [decision |-> llm, reason |-> "llm", roleDetected |-> "role"]

\* isQualified(decision)
isQualified(decision) == decision \in {"TIER_1", "TIER_2", "TIER_3"}

\* processContact where a failed LLM Router call ends the processing
ProcessQualify_ErrorEscapes(k, llm) ==
  /\ tasks[k].pc = "qualifying"
  /\ tasks' = [tasks EXCEPT ![k].pc = IF llm = "error" THEN "done" ELSE "updating",
                            ![k].result = qualifyProfile(llm)]
  /\ UNCHANGED <<contact, statusSets>>
  /\ HookFrame

\* processContact, step 2: qualifyProfile returns
ProcessQualify(k, llm) ==
  /\ tasks[k].pc = "qualifying"
  /\ tasks' = [tasks EXCEPT ![k].pc = "updating", ![k].result = qualifyProfile(llm)]
  /\ UNCHANGED <<contact, statusSets>>
  /\ HookFrame

\* updateContact, its getContact
UpdateGet(k) ==
  /\ tasks[k].pc = "updating"
  /\ tasks' = [tasks EXCEPT ![k].pc = IF contact.present THEN "writing" ELSE "done",
                            ![k].read = contact]
  /\ UNCHANGED <<contact, statusSets>>
  /\ HookFrame

\* updateContact, redis.set of {...contact, ...updates} and moveContactBetweenSets
UpdateSet(k) ==
  /\ tasks[k].pc = "writing"
  /\ LET result == tasks[k].result
         old == tasks[k].read
         newStatus == IF isQualified(result.decision) THEN "qualified" ELSE "disqualified"
     IN /\ contact' = [old EXCEPT !.status = newStatus, !.tier = result.decision,
                                  !.qualificationReason = result.reason,
                                  !.roleDetected = result.roleDetected,
                                  !.processedAt = TRUE]
        /\ statusSets' = IF newStatus # old.status
                           THEN [[statusSets EXCEPT ![old.status] = FALSE]
                                   EXCEPT ![newStatus] = TRUE]
                           ELSE statusSets
  /\ tasks' = [tasks EXCEPT ![k].pc = "done"]
  /\ HookFrame

Verdicts == BOOLEAN \X {50, 85}

SaveAny ==
  \E n \in Names \cup {"Zed"}, v \in Verdicts, resp \in Responses :
     SaveQualification(n, v[1], v[2], resp)

\* lengths of the text arguments of a save_qualification call
ShortArgs == [reasoning |-> 500, recommendedApproach |-> 0,
              strengths |-> <<100, 100, 100, 100, 100>>, concerns |-> <<>>]

\* the arguments within the limits, and each single way to exceed them
ToolArgs ==
  {ShortArgs,
   [ShortArgs EXCEPT !.reasoning = 501],
   [ShortArgs EXCEPT !.recommendedApproach = 501],
   [ShortArgs EXCEPT !.strengths = <<1, 1, 1, 1, 1, 1>>],
   [ShortArgs EXCEPT !.strengths = <<101>>],
   [ShortArgs EXCEPT !.concerns = <<1, 1, 1, 1, 1, 1>>],
   [ShortArgs EXCEPT !.concerns = <<101>>]}

McpSaveAny ==
  \E n \in Names, v \in Verdicts : SaveQualificationTool(n, v[1], v[2], ShortArgs)

ApiQualifyAny == \E id \in ProfileIds, v \in Verdicts : ApiQualify(id, v[1], v[2])

\* submission, one batch-send invocation / one send request at a time
NextSend ==
  \/ SaveAny
  \/ \E resp \in Responses : TestSend(resp)
  \/ BatchSendStart(1)
  \/ BatchSendCall(1)
  \/ \E resp \in Responses : BatchSendResponse(1, resp)
  \/ \E c \in 1..Len(csv) : ApiImport(c)
  \/ ApiQualifyAny
  \/ \E body \in SendBodies : ApiSendStart(1, body)
  \/ ApiSendSelect(1)
  \/ \E resp \in Responses : ApiSendResponse(1, resp)
  \/ ApiSendTrack(1)
  \/ ApiSendStatus(1)

SpecSend == Init /\ [][NextSend]_vars

\* submission with overlapping batch-send invocations / send requests; the
\* records were qualified while the campaign service was failing, so that
\* they are still to be submitted
ConcResponses == {RespOkId, Resp500}

NextSendConc ==
  \/ \E n \in Names : SaveQualification(n, TRUE, 85, Resp500)
  \/ \E p \in Procs : BatchSendStart(p)
  \/ \E p \in Procs : BatchSendCall(p)
  \/ \E p \in Procs, resp \in ConcResponses : BatchSendResponse(p, resp)
  \/ \E c \in 1..Len(csv) : ApiImport(c)
  \/ \E id \in ProfileIds : ApiQualify(id, TRUE, 85)
  \/ \E r \in Reqs, body \in SendBodies : ApiSendStart(r, body)
  \/ \E r \in Reqs : ApiSendSelect(r)
  \/ \E r \in Reqs, resp \in ConcResponses : ApiSendResponse(r, resp)
  \/ \E r \in Reqs : ApiSendTrack(r)
  \/ \E r \in Reqs : ApiSendStatus(r)

SpecSendConc == Init /\ [][NextSendConc]_vars

\* reconciliation
NextRecon ==
  \/ SaveAny
  \/ McpSaveAny
  \/ CheckAcceptedConnections
  \/ \E l \in LeadIdx : LeadAccepts(l)
  \/ \E c \in 1..Len(csv) : ApiImport(c)
  \/ ApiQualifyAny
  \/ \E body \in SendBodies : ApiSendStart(1, body)
  \/ ApiSendSelect(1)
  \/ \E resp \in Responses : ApiSendResponse(1, resp)
  \/ ApiSendTrack(1)
  \/ ApiSendStatus(1)
  \/ ApiSync

SpecRecon == Init /\ [][NextRecon]_vars

\* the API server with its profile-status endpoint
NextStage ==
  \/ \E c \in 1..Len(csv) : ApiImport(c)
  \/ \E id \in ProfileIds, status \in Statuses : ApiPatch(id, status)
  \/ ApiQualifyAny
  \/ \E body \in SendBodies : ApiSendStart(1, body)
  \/ ApiSendSelect(1)
  \/ \E resp \in Responses : ApiSendResponse(1, resp)
  \/ ApiSendTrack(1)
  \/ ApiSendStatus(1)

SpecStage == Init /\ [][NextStage]_vars

\* the rows of the API server's tables over import, classification, submission
\* and deletion
NextStore ==
  \/ \E c \in 1..Len(csv) : ApiImport(c)
  \/ ApiQualifyAny
  \/ \E body \in SendBodies : ApiSendStart(1, body)
  \/ ApiSendSelect(1)
  \/ \E resp \in {RespOkId, Resp500} : ApiSendResponse(1, resp)
  \/ ApiSendTrack(1)
  \/ ApiSendStatus(1)
  \/ \E id \in ProfileIds : send[1].pc = "idle" /\ ApiDelete(id)

SpecStore == Init /\ [][NextStore]_vars

\* follow-up messages of the first profile, once its connection is accepted
NextFollow ==
  \/ SaveQualification("Ada Lovelace", TRUE, 85, RespOkId)
  \/ LeadAccepts(1)
  \/ CheckAcceptedConnections
  \/ \E text \in MsgTexts : SaveOutreach(1, text)
  \/ ApproveOutreach(1)
  \/ MarkAsContacted("Ada Lovelace")
  \/ \E text \in MsgTexts : ReviseOutreach(1, text)
  \/ SendMessagesStart
  \/ \E ok \in BOOLEAN : SendMessagesItem(ok)
  \/ ApiImport(1)
  \/ ApiQualify(1, TRUE, 85)
  \/ ApiSendStart(1, <<1>>)
  \/ ApiSendSelect(1)
  \/ ApiSendResponse(1, RespOkId)
  \/ ApiSendTrack(1)
  \/ ApiSendStatus(1)
  \/ ApiSync
  \/ \E message \in MsgTexts \cup {0}, send_now \in BOOLEAN : ApiSaveMessage(1, message, send_now)
  \/ \E follow_up_sent \in BOOLEAN : ApiPatchConnection(1, follow_up_sent)

SpecFollow == Init /\ [][NextFollow]_vars

\* batches of the API server: POST /api/outreach/send over several ids and
\* POST /api/connections/sync over the campaign's leads
NextBatch ==
  \/ \E c \in 1..Len(csv) : ApiImport(c)
  \/ \E id \in ProfileIds : ApiQualify(id, TRUE, 85)
  \/ \E body \in SendBodies : ApiSendStart(1, body)
  \/ ApiSendSelect(1)
  \/ \E resp \in {RespOkId, Resp500} : ApiSendResponse(1, resp)
  \/ ApiSendTrack(1)
  \/ ApiSendStatus(1)
  \/ \E l \in ApiLeadIdx : LeadAccepts(l)
  \/ ApiSync
  \/ \E k \in ApiLeadIdx : ApiSyncDbError(k)

SpecBatch == Init /\ [][NextBatch]_vars

\* the webhook bot over repeated deliveries for one LinkedIn URL
NextHook ==
  \/ \E k \in Hooks : WebhookReceive(k)
  \/ \E k \in Hooks : WebhookQueue(k)
  \/ \E k \in Hooks : ProcessGet(k)
  \/ \E k \in Hooks, llm \in HookLlm : ProcessQualify(k, llm)
  \/ \E k \in Hooks : UpdateGet(k)
  \/ \E k \in Hooks : UpdateSet(k)

SpecHook == Init /\ [][NextHook]_vars

\* the handler and processContact keep running once started: the handler's
\* awaits resolve, setImmediate runs its callback, the LLM Router call settles
HookFairness ==
  /\ \A k \in Hooks : WF_vars(WebhookQueue(k))
  /\ \A k \in Hooks : WF_vars(ProcessGet(k))
  /\ \A k \in Hooks : WF_vars(\E llm \in HookLlm : ProcessQualify(k, llm))
  /\ \A k \in Hooks : WF_vars(UpdateGet(k))
  /\ \A k \in Hooks : WF_vars(UpdateSet(k))

SpecHookLive == SpecHook /\ HookFairness

\* qualification through the MCP tool and a caller working through the
\* profiles to contact
NextContact ==
  \/ McpSaveAny
  \/ ContactNext

SpecContact == Init /\ [][NextContact]_vars

\* the caller keeps looping while get_next_to_contact returns a profile
SpecContactLive == SpecContact /\ WF_vars(ContactNext)

\* qualification through the MCP tool of an export that holds two people of
\* one name
NextNamesakes ==
  \E n \in {"Ada Lovelace", "Zed"}, v \in Verdicts, args \in ToolArgs :
     SaveQualificationToolOf(csvNamesakes, n, v[1], v[2], args)

SpecNamesakes == Init /\ [][NextNamesakes]_vars

\* POST /api/outreach/send interrupted anywhere in its loop
NextInterrupt ==
  \/ \E c \in 1..Len(csv) : ApiImport(c)
  \/ \E id \in ProfileIds : ApiQualify(id, TRUE, 85)
  \/ \E body \in SendBodies : ApiSendStart(1, body)
  \/ ApiSendSelect(1)
  \/ \E resp \in {RespOkId, Resp500} : ApiSendResponse(1, resp)
  \/ ApiSendTrack(1)
  \/ ApiSendStatus(1)
  \/ ApiSendKilled(1)

SpecInterrupt == Init /\ [][NextInterrupt]_vars

\* classification of the first imported profile by the API server, over what
\* the LLM Router may return
TextPieces == {"{", "}", "w", "T85"}
Texts == UNION {[1..n -> TextPieces] : n \in 0..MaxText}
LlmOutcomes == {[ok |-> FALSE, response |-> <<>>]} \cup {[ok |-> TRUE, response |-> t] : t \in Texts}

NextClassify ==
  \/ ApiImport(1)
  \/ \E llm \in LlmOutcomes : ApiQualifyLLM(1, llm)

SpecClassify == Init /\ [][NextClassify]_vars

\* the MCP server's save_qualification tool
NextMcp ==
  \E n \in Names \cup {"Zed"}, v \in Verdicts, args \in ToolArgs :
     SaveQualificationTool(n, v[1], v[2], args)

SpecMcp == Init /\ [][NextMcp]_vars

\* the scraper under its daily limit
NextQuota ==
  \/ \E n \in 1..(MaxCeiling + 1) : ScrapeStart(n)
  \/ ScrapeNext
  \/ ScrapeKilled
  \/ \E left \in {"truncated", "complete"} : ScrapeKilledInSave(left)
  \/ NextDay

SpecQuota == Init /\ [][NextQuota]_vars

\* the scraper over profiles whose extraction can fail
NextScrapeErr ==
  \/ \E n \in 1..(MaxCeiling + 1) : ScrapeStart(n)
  \/ ScrapeNext
  \/ ScrapeFails
  \/ NextDay

SpecScrapeErr == Init /\ [][NextScrapeErr]_vars

\* two scraper processes under one daily limit
NextQuotaConc ==
  \/ \E p \in Procs : ViewCheck(p)
  \/ \E p \in Procs : IncrementLoad(p)
  \/ \E p \in Procs : IncrementSave(p)
  \/ NextDay

SpecQuotaConc == Init /\ [][NextQuotaConc]_vars

\* the two page loops over one campaign
NextPages ==
  \/ GetAllCampaignLeadsStart
  \/ GetAllCampaignLeadsPage
  \/ ApiSyncPagesStart
  \/ ApiSyncPage

SpecPages == Init /\ [][NextPages]_vars

\* ======================================================== the claims, C1..C10

\* the store already marks this identity as submitted
SubmittedLocally(u) ==
  \/ AlreadySent(u)
  \/ \E id \in 1..Len(profilesTbl) :
        profilesTbl[id].linkedin_url = u /\ outreachTbl[id].present

\* C1: a submission of a record that is already marked submitted makes no call
\* to the campaign API: Heyreach never accepts a lead whose record was marked
\* submitted when the call was made.
C1_ResubmitMakesNoCall ==
  [][\A u \in CsvUrls : heyreachList'[u] > heyreachList[u] => ~SubmittedLocally(u)]_vars

\* C2: each record has at most one successful submission to the campaign
\* service.
C2_AtMostOneSuccessfulSubmission == \A u \in CsvUrls : heyreachList[u] <= 1

\* C3: at most one submission is in flight for a record at any time: two
\* invocations never both wait for the campaign service's answer for it.
C3_OneSubmissionInFlight ==
  /\ \A p, q \in Procs :
        (p # q /\ bs[p].pc = "awaiting" /\ bs[q].pc = "awaiting")
           => Head(bs[p].queue).idx # Head(bs[q].queue).idx
  /\ \A r, t \in Reqs :
        (r # t /\ send[r].pc = "sending" /\ send[t].pc = "sending")
           => Head(send[r].ids) # Head(send[t].ids)

\* accepted leads of the fixture, as each variant reads it
AcceptedFileLeads == {l \in LeadIdx : leadStatus[l] = AcceptedStatus}
AcceptedApiLeads == {l \in ApiLeadIdx : leadStatus[l] = AcceptedStatus}

C5_AcceptanceImpliesCampaignRef ==
  /\ \A i \in 1..Len(qualifiedDir) :
        qualifiedDir[i].connectionAccepted => qualifiedDir[i].heyreach.set
  /\ \A id \in ProfileIds : connTbl[id].present => outreachTbl[id].present

\* C6: a record with a campaignRef is classified as qualified; nothing is
\* submitted for an unclassified or disqualified record.
C6_CampaignRefImpliesQualified ==
  /\ \A i \in 1..Len(qualifiedDir) :
        qualifiedDir[i].heyreach.set =>
           /\ qualifiedDir[i].isQualified
           /\ qualifiedDir[i].qualified
           /\ qualifiedDir[i].score >= minScore
  /\ \A j \in 1..Len(disqualifiedDir) : ~disqualifiedDir[j].heyreach.set
  /\ \A id \in ProfileIds :
        (outreachTbl[id].present \/ \E r \in Reqs :
            send[r].pc \in {"sending", "track", "status"} /\ Head(send[r].ids) = id)
          => qualTbl[id].present /\ qualTbl[id].qualified
  /\ variant = "file" =>
       \A u \in CsvUrls : heyreachList[u] > 0 =>
          \E i \in 1..Len(qualifiedDir) : qualifiedDir[i].url = u /\ qualifiedDir[i].qualified

\* a submitted record next to a disqualified one
C6_Witness ==
  /\ \E i \in 1..Len(qualifiedDir) : qualifiedDir[i].heyreach.set
  /\ Len(disqualifiedDir) > 0

\* C7: a failed campaign API call is recorded on the record as a failed
\* campaignRef (submitted false, with the error).
C7_FailureRecordedOnRecord ==
  [][/\ \A p \in Procs :
          (bs[p].pc = "awaiting" /\ bs'[p].pc # "awaiting" /\ heyreachList' = heyreachList)
            => LET f == qualifiedDir'[Head(bs[p].queue).idx]
               IN f.heyreach.set /\ ~f.heyreach.sent /\ f.heyreach.error # ""
     /\ (Len(qualifiedDir') > Len(qualifiedDir) /\ heyreachConfigured
           /\ heyreachList' = heyreachList)
          => LET f == qualifiedDir'[Len(qualifiedDir')]
             IN f.heyreach.set /\ ~f.heyreach.sent /\ f.heyreach.error # ""
     /\ \A r \in Reqs :
          (send[r].pc = "sending" /\ send'[r].pc # "sending" /\ heyreachList' = heyreachList)
            => LET t == outreachTbl'[Head(send[r].ids)]
               IN t.present /\ t.status = "failed"
    ]_vars

\* the stage of a stored qualified record
FileStage(f) ==
  IF f.connectionAccepted THEN "connected"
  ELSE IF f.heyreach.set /\ f.heyreach.sent THEN "submitted"
  ELSE "qualified"

\* C8: after a submission that got HTTP 500 the record is still in stage
\* qualified, its campaignRef holds the failure and the failed-submission
\* sweep returns it.
C8_Http500IsListedAsFailed ==
  \A i \in 1..Len(qualifiedDir) :
     qualifiedDir[i].heyreach.error = ErrHttp(500) =>
        /\ FileStage(qualifiedDir[i]) = "qualified"
        /\ qualifiedDir[i].heyreach.set /\ ~qualifiedDir[i].heyreach.sent
        /\ i \in getFailedHeyreachSends(qualifiedDir)

C8_Witness ==
  \E i \in 1..Len(qualifiedDir) :
     /\ qualifiedDir[i].heyreach.error = ErrHttp(500)
     /\ i \in getFailedHeyreachSends(qualifiedDir)

\* two identities that differ at most by one trailing slash
SameUpToSlash(a, b) ==
  /\ a # NoUrl /\ b # NoUrl
  /\ (a = b \/ a = Append(b, "/") \/ b = Append(a, "/"))

\* C9: after a reconciliation run, a local record whose identity differs from
\* an accepted lead's identity only by a trailing slash is matched (it is
\* connected).
C9_TrailingSlashMatches ==
  lastOp = "sync" =>
    /\ \A l \in AcceptedFileLeads : \A i \in 1..Len(qualifiedDir) :
          SameUpToSlash(getLinkedInUrl(Leads[l]), qualifiedDir[i].url) =>
             \E j \in 1..Len(qualifiedDir) :
                qualifiedDir[j].url = qualifiedDir[i].url /\ qualifiedDir[j].connectionAccepted
    /\ \A l \in AcceptedApiLeads : \A id \in 1..Len(profilesTbl) :
          SameUpToSlash(ApiLeads[l].linkedInProfileURL, profilesTbl[id].linkedin_url) =>
             connTbl[id].present

\* the normalized form of an identity: trailing slash stripped, scheme and
\* host lowercased
LowerPiece(t) ==
  IF t = "HTTPS:" THEN "https:" ELSE IF t = "X.COM" THEN "x.com" ELSE t

NormalizedIdentity(url) ==
  LET u == IF Len(url) > 0 /\ url[Len(url)] = "/" THEN SubSeq(url, 1, Len(url) - 1) ELSE url
  IN [k \in 1..Len(u) |-> IF k \in {1, 4} THEN LowerPiece(u[k]) ELSE u[k]]

\* C10: identities are compared in normalized form, so after a reconciliation
\* run a local record whose identity equals an accepted lead's identity up to
\* the letter case of scheme and host is matched.
C10_CaseOfSchemeAndHostIgnored ==
  lastOp = "sync" =>
    \A l \in AcceptedFileLeads : \A i \in 1..Len(qualifiedDir) :
       (/\ getLinkedInUrl(Leads[l]) # NoUrl
        /\ NormalizedIdentity(getLinkedInUrl(Leads[l])) = NormalizedIdentity(qualifiedDir[i].url))
         => \E j \in 1..Len(qualifiedDir) :
               /\ NormalizedIdentity(qualifiedDir[j].url) = NormalizedIdentity(qualifiedDir[i].url)
               /\ qualifiedDir[j].connectionAccepted

\* ======================================================== the claims, C11..C20

\* C11: reconciliation never creates a record. A run leaves the set of stored
\* records as it was, and it touches only records that an accepted lead's
\* identity matches: a lead that matches no record is skipped.
C11_ReconcileCreatesNoRecord ==
  [][lastOp' = "sync" =>
       /\ Len(qualifiedDir') = Len(qualifiedDir)
       /\ \A i \in 1..Len(qualifiedDir) :
             /\ qualifiedDir'[i].name = qualifiedDir[i].name
             /\ qualifiedDir'[i].url = qualifiedDir[i].url
             /\ qualifiedDir'[i] # qualifiedDir[i] =>
                  \E l \in AcceptedFileLeads :
                     /\ getLinkedInUrl(Leads[l]) # NoUrl
                     /\ normalizeLinkedInUrl(getLinkedInUrl(Leads[l]))
                          = normalizeLinkedInUrl(qualifiedDir[i].url)
       /\ disqualifiedDir' = disqualifiedDir
       /\ profilesTbl' = profilesTbl
       /\ \A id \in ProfileIds :
             connTbl'[id] # connTbl[id] =>
                /\ id <= Len(profilesTbl)
                /\ \E l \in AcceptedApiLeads :
                      ApiLeads[l].linkedInProfileURL = profilesTbl[id].linkedin_url
  ]_vars

\* a run has met an accepted lead whose identity no stored record has
C11_Witness ==
  /\ lastOp = "sync"
  /\ \/ /\ variant = "file"
        /\ Len(qualifiedDir) > 0
        /\ \E l \in AcceptedFileLeads :
              /\ getLinkedInUrl(Leads[l]) # NoUrl
              /\ FindMatch(qualifiedDir, getLinkedInUrl(Leads[l])) = {}
     \/ /\ variant = "api"
        /\ Len(profilesTbl) > 0
        /\ \E l \in AcceptedApiLeads :
              /\ ApiLeads[l].linkedInProfileURL # NoUrl
              /\ ProfileByUrl(ApiLeads[l].linkedInProfileURL) = {}

\* the position of a profile status along new -> classified -> submitted
StatusRank(status) ==
  IF status = "new" THEN 0
  ELSE IF status \in {"qualified", "rejected"} THEN 1
  ELSE 2

\* C12: a record's stage is monotonic: no operation moves a stored profile to
\* an earlier stage.
C12_StageMonotonic ==
  [][\A id \in 1..Len(profilesTbl) :
        StatusRank(profilesTbl'[id].status) >= StatusRank(profilesTbl[id].status)]_vars

\* C13: a classification that makes a record qualified invokes the campaign
\* submission for it before the operation returns: when the step that stores
\* the qualified verdict is over, the record carries the outcome of a
\* submission attempt.
C13_QualifiedIsSubmittedAtOnce ==
  [][heyreachConfigured =>
       /\ Len(qualifiedDir') > Len(qualifiedDir) =>
             qualifiedDir'[Len(qualifiedDir')].heyreach.set
       /\ \A id \in ProfileIds :
             (~qualTbl[id].present /\ qualTbl'[id].present /\ qualTbl'[id].qualified
                /\ qualTbl'[id].score = 85)
               => outreachTbl'[id].present
  ]_vars

\* C14: a classified record is stored as qualified exactly when its verdict's
\* decision is a qualifying one and its score reaches the configured
\* minimum; every other classified record is stored as disqualified.
C14_QualifiedIffDecisionAndThreshold ==
  /\ \A i \in 1..Len(qualifiedDir) :
        qualifiedDir[i].qualified /\ qualifiedDir[i].score >= minScore
  /\ \A j \in 1..Len(disqualifiedDir) :
        ~(disqualifiedDir[j].qualified /\ disqualifiedDir[j].score >= minScore)
  /\ \A id \in 1..Len(profilesTbl) :
        qualTbl[id].present =>
           (profilesTbl[id].status # "rejected"
              <=> (qualTbl[id].qualified /\ qualTbl[id].score >= minScore))

\* C15: a classification that meets a Classifier error or an unparseable
\* verdict does not fail towards its caller: it persists the record as
\* disqualified.
C15_ParseFailureDisqualifies ==
  [][\A id \in ProfileIds :
        (llmSeen' # llmSeen /\ llmSeen'.profile_id = id /\ ~ParseAnalysis(llmSeen').ok)
          => /\ qualTbl'[id].present
             /\ ~qualTbl'[id].qualified
             /\ profilesTbl'[id].status = "rejected"
  ]_vars

\* the first balanced {...} block of a text; <<>> if there is none
FirstBalancedBlock(text) ==
  LET opens == {i \in 1..Len(text) : text[i] = "{"}
  IN IF opens = {} THEN <<>>
     ELSE LET first == Min(opens)
              Depth(j) == Cardinality({k \in first..j : text[k] = "{"})
                            - Cardinality({k \in first..j : text[k] = "}"})
              ends == {j \in first..Len(text) : Depth(j) = 0}
          IN IF ends = {} THEN <<>> ELSE SubSeq(text, first, Min(ends))

\* C16: verdict parsing takes the first balanced {...} block of the
\* Classifier's text: whenever that block is a valid verdict object, the
\* classification succeeds and stores that object's fields.
C16_FirstBalancedBlockIsParsed ==
  [][\A id \in ProfileIds :
        (/\ llmSeen' # llmSeen
         /\ llmSeen'.profile_id = id
         /\ llmSeen'.ok
         /\ JsonParse(FirstBalancedBlock(llmSeen'.response)).typed)
          => LET v == JsonParse(FirstBalancedBlock(llmSeen'.response))
             IN /\ qualTbl'[id].present
                /\ qualTbl'[id].qualified = v.qualified
                /\ qualTbl'[id].score = v.score
  ]_vars

\* the text fields of a call violate the length bounds: reasoning or approach
\* over 500 characters, more than 5 strengths or concerns, or an item over 100
ViolatesBounds(call) ==
  \/ call.reasoning > 500
  \/ call.recommendedApproach > 500
  \/ Len(call.strengths) > 5
  \/ Len(call.concerns) > 5
  \/ \E k \in 1..Len(call.strengths) : call.strengths[k] > 100
  \/ \E k \in 1..Len(call.concerns) : call.concerns[k] > 100

C18_QuotaNeverExceeded ==
  (variant = "scrape" /\ crashes = 0) =>
    /\ getTodayViews = recorded[today]
    /\ canViewMoreProfiles <=> recorded[today] < maxViews
    /\ ~canViewMoreProfiles <=> recorded[today] = maxViews
    /\ \A d \in Days : recorded[d] <= maxViews /\ loadStats.dailyStats[d] <= maxViews
    /\ getRemainingViews = maxViews - recorded[today]

\* the ceiling was reached on the second day and the scraper stopped
C18_Witness ==
  /\ variant = "scrape"
  /\ crashes = 0
  /\ today = 2
  /\ recorded[today] = maxViews
  /\ ~canViewMoreProfiles
  /\ ~scraper.running

\* C19: the count survives a crash: whenever the scraper is not running,
\* today's persisted count is at least the number of views recorded today,
\* and that number is within the ceiling.
C19_BudgetSurvivesCrash ==
  (variant = "scrape" /\ ~scraper.running) =>
    /\ getTodayViews >= recorded[today]
    /\ recorded[today] <= maxViews

\* the classification results stored for a profile name
ResultsFor(n) ==
  Cardinality({i \in 1..Len(qualifiedDir) : qualifiedDir[i].name = n})
    + Cardinality({j \in 1..Len(disqualifiedDir) : disqualifiedDir[j].name = n})

\* C20: a profile is never processed twice: a classified profile is not
\* offered for classification again, and no profile has a second
\* classification result.
C20_NoSecondClassification ==
  /\ getNextUnqualifiedProfile # 0 => ResultsFor(csv[getNextUnqualifiedProfile].name) = 0
  /\ \A n \in Names : ResultsFor(n) <= 1

\* C21: records are never deleted: every profile row and every stored
\* classification result that exists before a step exists after it.
C21_RecordsNeverDeleted ==
  [][/\ \A id \in ProfileIds : RowExists(id) => RowExists(id)'
     /\ \A id \in ProfileIds : qualTbl[id].present => qualTbl'[id].present
     /\ Len(qualifiedDir') >= Len(qualifiedDir)
     /\ Len(disqualifiedDir') >= Len(disqualifiedDir)]_vars

\* the approval of a connections row's follow-up message: the table has no
\* column for one and no route records one
ApiApproved(id) == FALSE

\* the approval of a profile file's current message text
FileApproved(i) ==
  outreach[i].outreachApproved /\ outreach[i].outreachMessage \in approvedTexts[i]

\* C22: a record is marked sent in the follow-up sub-pipeline only while its
\* current message text is approved: a step that sets messageSent on a profile
\* file, or follow_up_sent on a connections row, leaves a record whose current
\* text carries an approval.
C22_SentOnlyWhileApproved ==
  [][/\ \A i \in 1..MaxFiles :
          ~outreach[i].messageSent /\ outreach'[i].messageSent => FileApproved(i)'
     /\ \A id \in ProfileIds :
          ~apiFollow[id].follow_up_sent /\ apiFollow'[id].follow_up_sent => ApiApproved(id)']_vars

\* the profile files alone: messageSent is set only on an approved text
FileSentOnlyWhileApproved ==
  [][\A i \in 1..MaxFiles :
        ~outreach[i].messageSent /\ outreach'[i].messageSent => FileApproved(i)']_vars

\* C23: a per-record failure inside a batch never aborts the batch: when a
\* run of POST /api/connections/sync is over, it has answered with its counts,
\* and every accepted lead that has a profile has been processed into a
\* connections row.
C23_BatchNeverAborts ==
  lastOp \in {"sync", "syncError"} =>
    /\ lastOp = "sync"
    /\ \A l \in ApiLeadIdx :
          leadStatus[l] = AcceptedStatus /\ ProfileByUrl(ApiLeads[l].linkedInProfileURL) # {}
            => \E id \in ProfileByUrl(ApiLeads[l].linkedInProfileURL) : connTbl[id].present

\* C24: acquisition never classifies or submits and never changes the stage of
\* a record that already exists: a step that receives a contact by webhook
\* leaves the status and tier of a stored contact as they were, and a step
\* that adds a row to profiles leaves the status of the rows there and the
\* qualifications and outreach_tracking tables as they were.
C24_AcquisitionOnlyAddsRecords ==
  [][/\ (\E k \in Hooks : tasks[k].pc = "none" /\ tasks'[k].pc = "created") /\ contact.present
          => contact'.status = contact.status /\ contact'.tier = contact.tier
     /\ Len(profilesTbl') > Len(profilesTbl)
          => /\ \A id \in 1..Len(profilesTbl) : profilesTbl'[id].status = profilesTbl[id].status
             /\ qualTbl' = qualTbl
             /\ outreachTbl' = outreachTbl]_vars

C26_NoIncrementLost ==
  /\ getTodayViews = recorded[today]
  /\ getTodayViews <= maxViews

\* C27: read-then-write on a single record loses no update: a field one
\* operation has written to a profile file (outreach.contacted by
\* markAsContacted) is still in the file after another operation, which read
\* the file earlier, has written its own fields.
C27_NoLostUpdate ==
  [][\A i \in 1..MaxFiles : outreach[i].contacted => outreach'[i].contacted]_vars

\* C28: every stage is safely interruptible between records: with no send
\* request in its loop, whether it ended or was cut off, no record is written
\* in part: a profile has its outreach_tracking row exactly when its status is
\* contacted, and every profile Heyreach has taken has its tracking row.
C28_NoPartialRecord ==
  (\A r \in Reqs : send[r].pc = "idle") =>
    \A id \in ProfileIds :
       RowExists(id) =>
         /\ outreachTbl[id].present <=> profilesTbl[id].status = "contacted"
         /\ heyreachList[profilesTbl[id].linkedin_url] > 0 => outreachTbl[id].present

\* a loop has met one of the two stopping conditions: its last page was
\* shorter than the page size, or the leads fetched reach the declared total
StopIsDue(loop) ==
  /\ loop.requests > 0
  /\ \/ loop.last < PageSize
     \/ campaign.totalCount # 0 /\ Len(loop.leads) >= campaign.totalCount

\* C29: reconciliation pagination uses both stopping conditions: once a page is
\* shorter than the page size or the leads fetched reach the declared total,
\* no further page is requested; a loop that has ended holds every lead of
\* the campaign exactly once.
C29_BothStoppingConditions ==
  /\ \A loop \in {fileLoop, apiLoop} :
        /\ StopIsDue(loop) => loop.pc = "done"
        /\ loop.pc = "done" => loop.leads = [i \in 1..campaign.leads |-> i]

\* getAllCampaignLeads alone keeps to both conditions
FileLoopBothStoppingConditions ==
  /\ StopIsDue(fileLoop) => fileLoop.pc = "done"
  /\ fileLoop.pc = "done" => fileLoop.leads = [i \in 1..campaign.leads |-> i]

\* C30: on an Extractor failure the scraper counts the error and goes on with
\* the next item; the item that failed is not tried again in the same run:
\* no pass of the loop works on a position the run has failed on.
C30_FailedItemNotRetried ==
  [][(\/ scraper'.profilesScraped > scraper.profilesScraped
      \/ scrapeErrors'.errors > scrapeErrors.errors)
       => scraper.profilesScraped \notin scrapeErrors.failed]_vars

\* ======================================================== the claims, C31..C38

\* C31: the quota window resets when the day changes, without a reset job:
\* the step to a new day leaves data/stats.json as it is and today's count is
\* then 0, and a step that records a view leaves every other day's count as
\* it was.
C31_WindowResetsWithTheDay ==
  [][/\ today' # today => statsFile' = statsFile /\ getTodayViews' = 0
     /\ recorded' # recorded =>
          \A d \in Days \ {today} : loadStats'.dailyStats[d] = loadStats.dailyStats[d]]_vars

\* the first access of a new day after views were recorded the day before
C31_Witness ==
  /\ today = 2
  /\ loadStats.dailyStats[1] > 0
  /\ getTodayViews = 0

C33_NoAutomaticRetry ==
  /\ [](\A p \in Procs : \A j, k \in 1..Len(bs[p].queue) :
          bs[p].queue[j].idx = bs[p].queue[k].idx => j = k)
  /\ [][/\ \A p \in Procs :
             (/\ bs[p].pc \in {"ready", "awaiting"}
              /\ bs'[p] # bs[p]
              /\ bs'[p].pc # "awaiting"
              /\ ~qualifiedDir'[Head(bs[p].queue).idx].heyreach.sent)
               => /\ \A j \in 1..Len(bs'[p].queue) :
                       bs'[p].queue[j].idx # Head(bs[p].queue).idx
                  /\ Head(bs[p].queue).idx \in getFailedHeyreachSends(qualifiedDir')
        /\ \A r \in Reqs :
             (send[r].pc = "sending" /\ send'[r].pc \notin {"sending", "track"})
               => /\ heyreachList' = heyreachList
                  /\ \A j \in 1..Len(send'[r].ids) : send'[r].ids[j] # Head(send[r].ids)]_vars

\* a batch-send run is past a file whose submission never succeeded and is
\* about to send the next one
C33_Witness ==
  /\ Len(qualifiedDir) = 2
  /\ 1 \in getFailedHeyreachSends(qualifiedDir)
  /\ heyreachList[qualifiedDir[1].url] = 0
  /\ bs[1].pc = "ready"
  /\ Len(bs[1].queue) = 1 /\ bs[1].queue[1].idx = 2

\* C34: get-next returns the first record still needing the caller's action
\* and null when none is left, and a caller that loops get-next followed by
\* the mark operation on the returned record reaches null: whenever
\* get_next_to_contact returns a profile, the loop leads to a state in which
\* it returns null
C34_LoopReachesNull == (getNextToContact # 0) ~> (getNextToContact = 0)

\* the already-sent test of POST /send would let the profile through
ApiSelectable(id) ==
  /\ RowExists(id)
  /\ JoinedQualified(id)
  /\ ~outreachTbl[id].present

\* C35: a successful submission is reflected locally before the record can be
\* submitted again: with no send request in its loop, whether it ended or the
\* process was stopped, a profile that a later POST /send would submit has no
\* successful campaign call behind it.
C35_SuccessReflectedBeforeReselect ==
  (\A r \in Reqs : send[r].pc = "idle") =>
    \A id \in ProfileIds :
       ApiSelectable(id) => heyreachList[profilesTbl[id].linkedin_url] = 0

\* C36: in the webhook store, once the deliveries made so far and their
\* processing runs have ended, the contact's linkedinUrl is in exactly one
\* status set, the one named by the status stored on the contact.
C36_ExactlyOneStatusSet ==
  (\A k \in Hooks : tasks[k].pc \in {"none", "done"}) =>
    (contact.present =>
       \A s \in {"pending", "qualified", "disqualified"} :
          statusSets[s] <=> contact.status = s)

\* C37: classifying one profile never makes a different, still unclassified
\* profile count as processed: every loaded profile without a stored result of
\* its own is still among the profiles get-next-profile and get-next-batch
\* offer, also when two profiles of the export share a name. A stored result
\* belongs to the profile whose url it carries.
C37_UnclassifiedStillOffered ==
  \A c \in 1..Len(csvNamesakes) :
     (/\ \A i \in 1..Len(qualifiedDir) : qualifiedDir[i].url # csvNamesakes[c].url
      /\ \A j \in 1..Len(disqualifiedDir) : disqualifiedDir[j].url # csvNamesakes[c].url)
       => c \in unprocessedOf(csvNamesakes)

\* C38: every acquisition run terminates, whatever the pattern of scrapes that
\* succeed and fail: each pass of the loop brings the run nearer to one of its
\* ends, that is, a pass (a profile scraped, an error counted, or the loop
\* left) raises profilesScraped towards maxProfiles or ends the run. A pass
\* that does neither leaves everything the loop's tests read as it was, and
\* can then be repeated without end.
C38_EveryPassNearsTheEnd ==
  [][(/\ scraper.running
      /\ \/ scraper' # scraper
         \/ scrapeErrors'.errors > scrapeErrors.errors)
       => \/ scraper'.profilesScraped > scraper.profilesScraped
          \/ ~scraper'.running]_vars

====
